---- MODULE Spec2Model ----
(***************************************************************************)
(* A model of the data collectors of aws-ai-cost-optimizer:                *)
(*   - CloudWatchCollector        (src/src/collectors/cloudwatch_metrics.py)*)
(*   - CostExplorerCollector      (src/src/collectors/cost_explorer.py)     *)
(*   - ResourceInventoryCollector (src/src/collectors/resource_inventory.py)*)
(*   - CostExplorerCollector of src/src/data_collection/cost_explorer/      *)
(*     collector.py (the response parsers)                                  *)
(*   - get_date_ranges            (src/src/utils.py)                        *)
(*   - the custom-metric cost estimate of the analysis scripts             *)
(*     (src/src/data_collection/)                                           *)
(* Every collector is driven by its caller; the cloud APIs and the stores   *)
(* are the environment and answer nondeterministically (a response or a    *)
(* failure).  Cost amounts are modelled as integers in hundredths; the     *)
(* metric values of calculate_statistics are binary floating-point numbers.*)
(***************************************************************************)
EXTENDS Integers, Sequences, FiniteSets, TLC

VARIABLES
    \* ---- CloudWatchCollector ----
    m_op,              \* the operation the caller invoked ("none" before a call)
    m_pc,              \* position inside that operation
    resources,         \* collect_batch_metrics: its `resources` argument
    ri,                \* collect_batch_metrics: index of the resource being processed
    resource_type,     \* collect_resource_metrics: its resource_type argument
    resource_id,       \* collect_resource_metrics: its resource_id argument
    mi,                \* collect_resource_metrics: index into config['Metrics']
    all_metrics_data,  \* collect_resource_metrics: rows collected so far
    all_data,          \* collect_batch_metrics: the per-resource tables collected so far
    m_result,          \* what the invoked operation returned or raised
    api_log,           \* every cw_client.get_metric_statistics request and its outcome
    \* ---- Cost Explorer response processing ----
    c_op,              \* the operation applied to the response ("none" before a call)
    raw_data,          \* the raw get_cost_and_usage response handed to the operation
    c_result,          \* what the operation returned or raised
    \* ---- ResourceInventoryCollector ----
    inv_pc,            \* position inside collect_full_inventory
    listing,           \* the pages each listing API holds, per service
    page_no,           \* number of pages of the running scan consumed so far
    instances,         \* the running scan's local list of records
    inventory,         \* the lists of the scans that have returned
    scans_started,     \* the scans that were started, in order
    page_log,          \* every page request of the listings and whether it succeeded
    inv_result,        \* what collect_full_inventory returned or raised
    \* ---- CloudWatchCollector.calculate_statistics ----
    df,                \* the metrics table handed to calculate_statistics
    stats_result,      \* what calculate_statistics returned or raised
    \* ---- persistence: the store operations and collect_last_n_days ----
    calls,             \* the calls made on the collector before the one under way
    region,            \* self.region of the collector under call
    clients,           \* the client handles of the collector: the region each is bound to
    s3_bucket,         \* self.s3_bucket of the collector under call
    dynamodb_table,    \* self.dynamodb_table of the collector under call
    p_op,              \* the operation the caller invoked ("none" before a call)
    p_pc,              \* position inside that operation
    date_str,          \* the date string the blob is partitioned by
    p_data,            \* the data handed to the operation (collect_last_n_days: raw_data)
    summaries,         \* collect_last_n_days: what process_cost_data returned
    si,                \* collect_last_n_days: index of the summary being stored
    s3_log,            \* every s3_client.put_object request and whether it succeeded
    ddb_log,           \* every table.put_item request and whether it succeeded
    p_result,          \* what the invoked operation returned or raised
    \* ---- the custom-metric cost estimate of the analysis scripts ----
    total_custom,      \* sum(custom_metrics.values())
    estimated_cost,    \* the estimate, in hundredths of a dollar
    cost_text,         \* the estimate as printed with :.2f
    \* ---- utils.get_date_ranges ----
    days_back,         \* its days_back argument
    chunk_days,        \* its chunk_days argument
    utc_today,         \* end_date = datetime.utcnow().date()
    current_end,       \* the end of the next chunk
    days_remaining,    \* the days not yet covered by a chunk
    ranges,            \* the (start, end) pairs appended so far
    d_pc,              \* position inside get_date_ranges
    d_result           \* what get_date_ranges returned

metricsVars == <<m_op, m_pc, resources, ri, resource_type, resource_id, mi,
                 all_metrics_data, all_data, m_result, api_log>>
costVars == <<c_op, raw_data, c_result>>
invVars == <<inv_pc, listing, page_no, instances, inventory, scans_started,
             page_log, inv_result>>
statsVars == <<df, stats_result>>
persistVars == <<calls, region, clients, s3_bucket, dynamodb_table, p_op, p_pc, date_str, p_data,
                 summaries, si,
                 s3_log, ddb_log, p_result>>
estimateVars == <<total_custom, estimated_cost, cost_text>>
rangeVars == <<days_back, chunk_days, utc_today, current_end, days_remaining, ranges,
               d_pc, d_result>>
vars == <<metricsVars, costVars, invVars, statsVars, persistVars, estimateVars, rangeVars>>

(***************************************************************************)
(* Generic helpers                                                         *)
(***************************************************************************)
Range(s) == {s[i] : i \in 1..Len(s)}

\* All sequences over S of length at most n.
SeqsUpTo(S, n) == UNION {[1..k -> S] : k \in 0..n}

RECURSIVE Flatten(_)
\* Concatenation of a sequence of sequences, in order.
Flatten(ss) == IF ss = <<>> THEN <<>> ELSE Head(ss) \o Flatten(Tail(ss))

RECURSIVE Reverse(_)
Reverse(s) == IF s = <<>> THEN <<>> ELSE Append(Reverse(Tail(s)), Head(s))

(***************************************************************************)
(* CloudWatchCollector                                                     *)
(***************************************************************************)
Metric(name, stat, unit) == [Name |-> name, Stat |-> stat, Unit |-> unit]

METRICS_CONFIG ==
    [EC2 |-> [Namespace |-> "AWS/EC2",
              Metrics |-> << Metric("CPUUtilization", "Average", "Percent"),
                             Metric("NetworkIn", "Sum", "Bytes"),
                             Metric("NetworkOut", "Sum", "Bytes"),
                             Metric("DiskReadBytes", "Sum", "Bytes"),
                             Metric("DiskWriteBytes", "Sum", "Bytes") >>,
              DimensionName |-> "InstanceId"],
     RDS |-> [Namespace |-> "AWS/RDS",
              Metrics |-> << Metric("CPUUtilization", "Average", "Percent"),
                             Metric("DatabaseConnections", "Average", "Count"),
                             Metric("FreeStorageSpace", "Average", "Bytes"),
                             Metric("ReadLatency", "Average", "Seconds"),
                             Metric("WriteLatency", "Average", "Seconds") >>,
              DimensionName |-> "DBInstanceIdentifier"],
     Lambda |-> [Namespace |-> "AWS/Lambda",
              Metrics |-> << Metric("Duration", "Average", "Milliseconds"),
                             Metric("Invocations", "Sum", "Count"),
                             Metric("Errors", "Sum", "Count"),
                             Metric("ConcurrentExecutions", "Maximum", "Count") >>,
              DimensionName |-> "FunctionName"]]

\* What an operation returned or raised.
NoResult == [kind |-> "none", rows |-> <<>>, error |-> ""]
Returned(kind, rows) == [kind |-> kind, rows |-> rows, error |-> ""]
Raised(error) == [kind |-> "raised", rows |-> <<>>, error |-> error]

\* An answer of the metrics API: a list of datapoints, or a failure.
ApiOk(datapoints) == [ok |-> TRUE, Datapoints |-> datapoints, error |-> ""]
ApiFailure == [ok |-> FALSE, Datapoints |-> <<>>, error |-> "ClientError"]

\* A datapoint of the API: the timestamp, the requested statistic, the unit.
Datapoint(t, stat, v, unit) ==
    [k \in {"Timestamp", stat, "Unit"} |->
        IF k = "Timestamp" THEN t ELSE IF k = stat THEN v ELSE unit]

\* A sort in descending order of timestamp.
RECURSIVE SortedInsertDescending(_, _)
SortedInsertDescending(sorted, x) ==
    IF sorted = <<>> THEN <<x>>
    ELSE IF sorted[Len(sorted)].Timestamp >= x.Timestamp THEN Append(sorted, x)
    ELSE Append(SortedInsertDescending(SubSeq(sorted, 1, Len(sorted) - 1), x),
                sorted[Len(sorted)])

\* list.sort(key=Timestamp) is stable: x goes after every element whose
\* timestamp is not greater than its own.
RECURSIVE SortedInsert(_, _)
SortedInsert(sorted, x) ==
    IF sorted = <<>> THEN <<x>>
    ELSE IF sorted[Len(sorted)].Timestamp <= x.Timestamp THEN Append(sorted, x)
    ELSE Append(SortedInsert(SubSeq(sorted, 1, Len(sorted) - 1), x), sorted[Len(sorted)])

RECURSIVE SortByTimestamp(_)
SortByTimestamp(dps) ==
    IF dps = <<>> THEN <<>>
    ELSE SortedInsert(SortByTimestamp(SubSeq(dps, 1, Len(dps) - 1)), dps[Len(dps)])

\* get_metric_statistics: the API's datapoints sorted by timestamp; an API
\* failure is logged and raised again.
GetMetricStatistics(answer) ==
    IF answer.ok THEN Returned("list", SortByTimestamp(answer.Datapoints))
    ELSE Raised(answer.error)

\* The rows collect_resource_metrics appends for one metric's datapoints.
MetricRows(rtype, rid, mc, datapoints) ==
    [i \in 1..Len(datapoints) |->
        [resource_type |-> rtype,
         resource_id |-> rid,
         metric_name |-> mc.Name,
         timestamp |-> datapoints[i].Timestamp,
         value |-> IF mc.Stat \in DOMAIN datapoints[i] THEN datapoints[i][mc.Stat] ELSE 0,
         unit |-> IF "Unit" \in DOMAIN datapoints[i] THEN datapoints[i].Unit ELSE mc.Unit,
         statistic |-> mc.Stat]]

\* A metric loop whose except block ends in `break`: a failed fetch leaves
\* the loop.
NextMetricIndexBreak(rtype, i, got) ==
    IF got.kind = "raised" THEN Len(METRICS_CONFIG[rtype].Metrics) + 1 ELSE i + 1

\* A metric loop that issues a failed fetch again.
NextMetricIndexRetry(rtype, i, got) == IF got.kind = "raised" THEN i ELSE i + 1

\* Where the metric loop goes after a fetch: to the next metric, whether the
\* fetch returned or raised (the except block ends in `continue`).
NextMetricIndex(rtype, i, got) == i + 1

\* Without the validation, the config lookup that follows raises KeyError.
ValidateResourceTypeDropped(rtype) ==
    IF rtype \notin DOMAIN METRICS_CONFIG THEN "KeyError" ELSE "ok"

\* The validation opening collect_resource_metrics.
ValidateResourceType(rtype) ==
    IF rtype \notin DOMAIN METRICS_CONFIG THEN "ValueError" ELSE "ok"

\* collect_batch_metrics, the try block of one resource up to the call: the
\* arguments resource['type'] and resource['id'] are evaluated, then
\* collect_resource_metrics validates the type.
BatchCallError(r) ==
    IF "type" \notin DOMAIN r THEN "KeyError"
    ELSE IF "id" \notin DOMAIN r THEN "KeyError"
    ELSE ValidateResourceType(r.type)

\* collect_batch_metrics, the except block: its log line reads resource['id'].
BatchHandlerError(r) == IF "id" \notin DOMAIN r THEN "KeyError" ELSE "ok"

\* pd.concat(all_data, ignore_index=True); pd.DataFrame() when all_data is empty.
CombineTables(tables) == Flatten(tables)

\* ---- inputs of the metrics operations ----
MaxResources == 2
MaxDatapoints == 3
MaxTimestamp == 3

\* The entries a caller may put in a batch: supported ones, one of an
\* unsupported type, one lacking 'type', one lacking 'id'.
SampleResources ==
    { [type |-> "EC2", id |-> "i-1"],
      [type |-> "Lambda", id |-> "fn-1"],
      [type |-> "S3", id |-> "bucket-1"],
      [id |-> "i-2"],
      [type |-> "EC2"] }

SampleCalls ==
    { <<"EC2", "i-1">>, <<"RDS", "db-1">>, <<"Lambda", "fn-1">>, <<"S3", "bucket-1">> }

\* What the API answers to a request of collect_resource_metrics: a failure, or
\* two datapoints of the requested statistic, the later one first.
ApiAnswers(mc) ==
    { ApiFailure,
      ApiOk(<< Datapoint(2, mc.Stat, 7, mc.Unit), Datapoint(1, mc.Stat, 5, mc.Unit) >>) }

\* What the API answers to a direct get_metric_statistics request.
DirectAnswers ==
    {ApiFailure} \cup
    {ApiOk(dps) : dps \in SeqsUpTo({Datapoint(t, "Average", v, "Percent") :
                                        t \in 1..MaxTimestamp, v \in {10, 20}},
                                   MaxDatapoints)}

MetricsInit ==
    /\ m_op = "none"
    /\ m_pc = "idle"
    /\ resources = <<>>
    /\ ri = 0
    /\ resource_type = ""
    /\ resource_id = ""
    /\ mi = 0
    /\ all_metrics_data = <<>>
    /\ all_data = <<>>
    /\ m_result = NoResult
    /\ api_log = <<>>

LogEntry(rtype, rid, name, answer) ==
    [resource_type |-> rtype, resource_id |-> rid, metric_name |-> name, answer |-> answer]

\* The caller invokes get_metric_statistics directly (one request, one answer).
CallGetMetricStatistics ==
    /\ UNCHANGED <<costVars, invVars, statsVars, persistVars, estimateVars, rangeVars>>
    /\ m_pc = "idle"
    /\ \E answer \in DirectAnswers :
        /\ api_log' = Append(api_log, LogEntry("EC2", "i-1", "CPUUtilization", answer))
        /\ m_result' = GetMetricStatistics(answer)
    /\ m_op' = "get_metric_statistics"
    /\ m_pc' = "done"
    /\ UNCHANGED <<resources, ri, resource_type, resource_id, mi, all_metrics_data, all_data>>

\* collect_resource_metrics up to its metric loop: validation, then the loop starts.
EnterCollectResourceMetrics(rtype, rid) ==
    /\ resource_type' = rtype
    /\ resource_id' = rid
    /\ mi' = 1
    /\ all_metrics_data' = <<>>
    /\ m_pc' = "metrics"

\* The caller invokes collect_resource_metrics.
CallCollectResourceMetrics ==
    /\ UNCHANGED <<costVars, invVars, statsVars, persistVars, estimateVars, rangeVars>>
    /\ m_pc = "idle"
    /\ m_op' = "collect_resource_metrics"
    /\ \E call \in SampleCalls :
        IF ValidateResourceType(call[1]) # "ok"
        THEN /\ m_result' = Raised(ValidateResourceType(call[1]))
             /\ m_pc' = "done"
             /\ resource_type' = call[1]
             /\ resource_id' = call[2]
             /\ UNCHANGED <<mi, all_metrics_data>>
        ELSE /\ EnterCollectResourceMetrics(call[1], call[2])
             /\ UNCHANGED m_result
    /\ UNCHANGED <<resources, ri, all_data, api_log>>

\* One iteration of the metric loop of collect_resource_metrics: the request is
\* issued; its datapoints become rows, or its failure is logged and skipped.
FetchMetric ==
    /\ UNCHANGED <<costVars, invVars, statsVars, persistVars, estimateVars, rangeVars>>
    /\ m_pc = "metrics"
    /\ mi <= Len(METRICS_CONFIG[resource_type].Metrics)
    /\ LET mc == METRICS_CONFIG[resource_type].Metrics[mi] IN
       \E answer \in ApiAnswers(mc) :
        LET got == GetMetricStatistics(answer) IN
        /\ api_log' = Append(api_log, LogEntry(resource_type, resource_id, mc.Name, answer))
        /\ all_metrics_data' =
              IF got.kind = "raised" THEN all_metrics_data
              ELSE all_metrics_data \o MetricRows(resource_type, resource_id, mc, got.rows)
        /\ mi' = NextMetricIndex(resource_type, mi, got)
    /\ UNCHANGED <<m_op, m_pc, resources, ri, resource_type, resource_id, all_data, m_result>>

\* collect_resource_metrics returns its table: to the caller, or to the batch
\* loop, which appends it to all_data and goes on to the next resource.
ReturnResourceMetrics ==
    /\ UNCHANGED <<costVars, invVars, statsVars, persistVars, estimateVars, rangeVars>>
    /\ m_pc = "metrics"
    /\ mi > Len(METRICS_CONFIG[resource_type].Metrics)
    /\ IF m_op = "collect_batch_metrics"
       THEN /\ all_data' = Append(all_data, all_metrics_data)
            /\ ri' = ri + 1
            /\ m_pc' = "batch"
            /\ UNCHANGED m_result
       ELSE /\ m_result' = Returned("table", all_metrics_data)
            /\ m_pc' = "done"
            /\ UNCHANGED <<all_data, ri>>
    /\ UNCHANGED <<m_op, resources, resource_type, resource_id, mi, all_metrics_data, api_log>>

\* The caller invokes collect_batch_metrics.
CallCollectBatchMetrics ==
    /\ UNCHANGED <<costVars, invVars, statsVars, persistVars, estimateVars, rangeVars>>
    /\ m_pc = "idle"
    /\ m_op' = "collect_batch_metrics"
    /\ resources' \in SeqsUpTo(SampleResources, MaxResources)
    /\ ri' = 1
    /\ all_data' = <<>>
    /\ m_pc' = "batch"
    /\ UNCHANGED <<resource_type, resource_id, mi, all_metrics_data, m_result, api_log>>

\* One resource of the batch loop, up to the start of its metric loop: a
\* failure goes to the except block, which logs resource['id'] and continues.
BatchResource ==
    /\ UNCHANGED <<costVars, invVars, statsVars, persistVars, estimateVars, rangeVars>>
    /\ m_pc = "batch"
    /\ ri <= Len(resources)
    /\ LET r == resources[ri] IN
       IF BatchCallError(r) = "ok"
       THEN /\ EnterCollectResourceMetrics(r.type, r.id)
            /\ UNCHANGED <<ri, m_result>>
       ELSE IF BatchHandlerError(r) = "ok"
       THEN /\ ri' = ri + 1
            /\ UNCHANGED <<m_pc, resource_type, resource_id, mi, all_metrics_data, m_result>>
       ELSE /\ m_result' = Raised(BatchHandlerError(r))
            /\ m_pc' = "done"
            /\ UNCHANGED <<ri, resource_type, resource_id, mi, all_metrics_data>>
    /\ UNCHANGED <<m_op, resources, all_data, api_log>>

\* The batch loop is over: the tables are combined, or an empty table is returned.
ReturnBatchMetrics ==
    /\ UNCHANGED <<costVars, invVars, statsVars, persistVars, estimateVars, rangeVars>>
    /\ m_pc = "batch"
    /\ ri > Len(resources)
    /\ m_result' = Returned("table", CombineTables(all_data))
    /\ m_pc' = "done"
    /\ UNCHANGED <<m_op, resources, ri, resource_type, resource_id, mi,
                   all_metrics_data, all_data, api_log>>

MetricsNext ==
    \/ CallGetMetricStatistics
    \/ CallCollectResourceMetrics
    \/ FetchMetric
    \/ ReturnResourceMetrics
    \/ CallCollectBatchMetrics
    \/ BatchResource
    \/ ReturnBatchMetrics

(***************************************************************************)
(* Claims about the CloudWatchCollector (checked under SpecMetrics)        *)
(***************************************************************************)
SupportedTypes == DOMAIN METRICS_CONFIG

\* A batch entry whose own collection does not raise.
Collectable(r) == {"type", "id"} \subseteq DOMAIN r /\ r.type \in SupportedTypes

RowsOfMetric(rows, name) == SelectSeq(rows, LAMBDA row : row.metric_name = name)

\* C1: collect_batch_metrics returns a table for every list of resource
\* entries (supported, unsupported, lacking 'type' or 'id'): no exception
\* escapes it, and the rows are those of resources whose collection did not raise.
C1_BatchAlwaysReturnsTable ==
    (m_op = "collect_batch_metrics" /\ m_pc = "done") =>
        /\ m_result.kind = "table"
        /\ \A k \in 1..Len(m_result.rows) :
              \E i \in 1..Len(resources) :
                 /\ Collectable(resources[i])
                 /\ m_result.rows[k].resource_id = resources[i].id

\* C2: collect_resource_metrics of a supported type always returns a table;
\* it issues one fetch per metric of the category, and the table holds, for
\* each metric, a row per datapoint of a successful fetch and no row of a
\* failed one.
C2_FailedMetricsAreSkipped ==
    (m_op = "collect_resource_metrics" /\ m_pc = "done"
        /\ resource_type \in SupportedTypes) =>
        LET metrics == METRICS_CONFIG[resource_type].Metrics IN
        /\ m_result.kind = "table"
        /\ Len(api_log) = Len(metrics)
        /\ \A k \in 1..Len(api_log) :
              LET mc == metrics[k]
                  answer == api_log[k].answer
                  mine == RowsOfMetric(m_result.rows, mc.Name)
              IN  /\ api_log[k].metric_name = mc.Name
                  /\ ~answer.ok => mine = <<>>
                  /\ answer.ok =>
                        /\ Len(mine) = Len(answer.Datapoints)
                        /\ \A d \in Range(answer.Datapoints) :
                              \E row \in Range(mine) :
                                 /\ row.timestamp = d.Timestamp
                                 /\ row.value = d[mc.Stat]
                                 /\ row.resource_id = resource_id

\* C2 witness: a returned table with rows, after a failed fetch that was
\* followed by a successful one.
C2_Witness ==
    /\ m_op = "collect_resource_metrics"
    /\ m_pc = "done"
    /\ m_result.kind = "table"
    /\ m_result.rows # <<>>
    /\ \E j, k \in 1..Len(api_log) :
          j < k /\ ~api_log[j].answer.ok /\ api_log[k].answer.ok

\* C4: collect_resource_metrics with a resource type outside the metrics
\* table raises the validation error at once; no fetch is ever issued for
\* such a type, and no table is returned.
C4_UnsupportedTypeFailsFast ==
    /\ (m_op = "collect_resource_metrics" /\ resource_type \notin SupportedTypes) =>
          /\ m_pc = "done"
          /\ m_result = Raised("ValueError")
          /\ api_log = <<>>
    /\ \A k \in 1..Len(api_log) : api_log[k].resource_type \in SupportedTypes

\* C4 witness: the call with the unsupported type has ended.
C4_Witness ==
    /\ m_op = "collect_resource_metrics"
    /\ resource_type \notin SupportedTypes
    /\ m_result.kind = "raised"

\* x occurs in s as often as in t.
SameCount(s, t, x) ==
    Cardinality({i \in 1..Len(s) : s[i] = x}) = Cardinality({i \in 1..Len(t) : t[i] = x})

\* C5: whatever the order of the API's datapoints, get_metric_statistics
\* returns a permutation of them whose timestamps are non-decreasing.
C5_SortedPermutation ==
    (m_op = "get_metric_statistics" /\ m_pc = "done" /\ api_log[1].answer.ok) =>
        LET given == api_log[1].answer.Datapoints
            got == m_result.rows
        IN  /\ m_result.kind = "list"
            /\ Len(got) = Len(given)
            /\ \A x \in Range(given) \cup Range(got) : SameCount(got, given, x)
            /\ \A i \in 1..(Len(got) - 1) : got[i].Timestamp <= got[i + 1].Timestamp

\* C5 witness: the API's datapoints came out of order, with a repeated timestamp.
C5_Witness ==
    /\ m_op = "get_metric_statistics"
    /\ m_pc = "done"
    /\ m_result.kind = "list"
    /\ \E i, j, k \in 1..Len(api_log[1].answer.Datapoints) :
          LET given == api_log[1].answer.Datapoints IN
          /\ i < j /\ given[i].Timestamp > given[j].Timestamp
          /\ k # i /\ given[k].Timestamp = given[i].Timestamp

\* What identifies a row of a metrics table.
RowKey(row) == <<row.timestamp, row.metric_name, row.resource_id>>

\* C21: the table returned by collect_resource_metrics and by
\* collect_batch_metrics holds at most one row per (timestamp, metric_name,
\* resource_id), whatever the list of resources and the API's answers.
C21_OneRowPerKey ==
    (m_op \in {"collect_resource_metrics", "collect_batch_metrics"}
        /\ m_result.kind = "table") =>
        \A i, j \in 1..Len(m_result.rows) :
            RowKey(m_result.rows[i]) = RowKey(m_result.rows[j]) => i = j

\* The fetches collect_resource_metrics issues for a batch entry: one per
\* metric of the category in table order, none for an entry that raises.
FetchesOf(r) ==
    IF Collectable(r)
    THEN [k \in 1..Len(METRICS_CONFIG[r.type].Metrics) |->
             <<r.type, r.id, METRICS_CONFIG[r.type].Metrics[k].Name>>]
    ELSE <<>>

\* The fetches of a whole batch, resource after resource in list order.
BatchFetchPlan == Flatten([i \in 1..Len(resources) |-> FetchesOf(resources[i])])

\* The fetches issued so far, in the order of their issue.
FetchesIssued ==
    [k \in 1..Len(api_log) |->
        <<api_log[k].resource_type, api_log[k].resource_id, api_log[k].metric_name>>]

\* C22, in every state of collect_batch_metrics: the fetches issued so far
\* are the first ones of the batch's plan, and a returned table comes after
\* the whole plan.
C22_StateOfBatchFetches ==
    (m_op = "collect_batch_metrics") =>
        /\ Len(FetchesIssued) <= Len(BatchFetchPlan)
        /\ FetchesIssued = SubSeq(BatchFetchPlan, 1, Len(FetchesIssued))
        /\ (m_pc = "done" /\ m_result.kind = "table") => FetchesIssued = BatchFetchPlan

\* C22: collect_batch_metrics issues its fetches one at a time and each at
\* most once: resources in list order, all fetches of a resource before those
\* of the next, one fetch per metric of the category in table order, whether
\* earlier fetches succeeded or failed (no retry, no metric skipped).
C22_FetchesSequentialOnceEach ==
    /\ []C22_StateOfBatchFetches
    /\ [][/\ Len(api_log') <= Len(api_log) + 1
          /\ SubSeq(api_log', 1, Len(api_log)) = api_log]_vars

\* C22 witness: a batch of two supported resources has returned its table; a
\* fetch of the first resource failed and fetches of both followed it.
C22_Witness ==
    /\ m_op = "collect_batch_metrics"
    /\ m_pc = "done"
    /\ m_result.kind = "table"
    /\ Len(resources) = 2
    /\ \A i \in 1..2 : Collectable(resources[i])
    /\ resources[1] # resources[2]
    /\ Len(api_log) = Len(BatchFetchPlan)
    /\ ~api_log[1].answer.ok
    /\ api_log[2].answer.ok
    /\ ~api_log[Len(api_log)].answer.ok

(***************************************************************************)
(* Cost Explorer responses and their processing                            *)
(***************************************************************************)
\* dict.get(key, default)
Get(d, key, default) == IF key \in DOMAIN d THEN d[key] ELSE default

\* An amount of the API is a decimal string, modelled as its characters.
Digits == <<"0", "1", "2", "3", "4", "5", "6", "7", "8", "9">>
DigitValue(c) == (CHOOSE i \in 1..Len(Digits) : Digits[i] = c) - 1

RECURSIVE DigitsValue(_)
DigitsValue(cs) ==
    IF cs = <<>> THEN 0
    ELSE 10 * DigitsValue(SubSeq(cs, 1, Len(cs) - 1)) + DigitValue(cs[Len(cs)])

\* float(amount) of a decimal string with at most two fraction digits, in
\* hundredths: float("2.5") is 250, float("10") is 1000.
ParseFloat(cs) ==
    LET dots == {i \in 1..Len(cs) : cs[i] = "."}
        dot == IF dots = {} THEN Len(cs) + 1 ELSE CHOOSE i \in dots : TRUE
        whole == SubSeq(cs, 1, dot - 1)
        fraction == SubSeq(cs, dot + 1, Len(cs))
    IN  100 * DigitsValue(whole)
          + (IF Len(fraction) = 0 THEN 0
             ELSE IF Len(fraction) = 1 THEN 10 * DigitsValue(fraction)
             ELSE DigitsValue(SubSeq(fraction, 1, 2)))

Group(keys, amortized, usage, unblended) ==
    [Keys |-> keys,
     Metrics |-> [AmortizedCost |-> [Amount |-> amortized],
                  UsageQuantity |-> [Amount |-> usage],
                  UnblendedCost |-> [Amount |-> unblended]]]

\* The groups of a response, period after period; a period or a response
\* lacking the key contributes none.
PeriodGroups(time_period) == Get(time_period, "Groups", <<>>)
ResultsByTime(response) == Get(response, "ResultsByTime", <<>>)
AllGroups(response) ==
    Flatten([p \in 1..Len(ResultsByTime(response)) |->
                PeriodGroups(ResultsByTime(response)[p])])

\* ---- collectors/cost_explorer.py: process_cost_data ----

\* A summary with the two key positions exchanged.
CostSummarySwapped(date, group, now) ==
    [date |-> date,
     service |-> IF Len(group.Keys) > 1 THEN group.Keys[2] ELSE "Unknown",
     resource_id |-> IF Len(group.Keys) > 0 THEN group.Keys[1] ELSE "N/A",
     amortized_cost |-> ParseFloat(group.Metrics.AmortizedCost.Amount),
     usage_quantity |-> ParseFloat(group.Metrics.UsageQuantity.Amount),
     timestamp |-> now]

\* The summary process_cost_data builds of one group of one time period.
CostSummary(date, group, now) ==
    [date |-> date,
     service |-> IF Len(group.Keys) > 0 THEN group.Keys[1] ELSE "Unknown",
     resource_id |-> IF Len(group.Keys) > 1 THEN group.Keys[2] ELSE "N/A",
     amortized_cost |-> ParseFloat(group.Metrics.AmortizedCost.Amount),
     usage_quantity |-> ParseFloat(group.Metrics.UsageQuantity.Amount),
     timestamp |-> now]

\* process_cost_data keeping only the last group of each time period.
ProcessCostDataLastGroupOnly(response, now) ==
    Flatten([p \in 1..Len(ResultsByTime(response)) |->
        LET time_period == ResultsByTime(response)[p]
            groups == PeriodGroups(time_period)
        IN  IF groups = <<>> THEN <<>>
            ELSE << CostSummary(time_period.TimePeriod.Start, groups[Len(groups)], now) >>])

\* process_cost_data: one summary per group of every time period, in order.
ProcessCostData(response, now) ==
    Flatten([p \in 1..Len(ResultsByTime(response)) |->
        LET time_period == ResultsByTime(response)[p]
            groups == PeriodGroups(time_period)
        IN  [g \in 1..Len(groups) |->
                CostSummary(time_period.TimePeriod.Start, groups[g], now)]])

\* ---- data_collection/cost_explorer/collector.py ----

\* A dict is modelled as the sequence of its items in insertion order.
DictKeys(d) == {d[i].key : i \in 1..Len(d)}

\* d[key] = cost: the cost of the key's last group, not their sum.
AddCostOverwriting(d, key, cost) ==
    IF key \in DictKeys(d)
    THEN [i \in 1..Len(d) |-> IF d[i].key = key THEN [key |-> key, cost |-> cost] ELSE d[i]]
    ELSE Append(d, [key |-> key, cost |-> cost])

\* d[key] += cost, after d[key] = 0.0 when the key is new (a new key goes last).
AddCost(d, key, cost) ==
    IF key \in DictKeys(d)
    THEN [i \in 1..Len(d) |->
            IF d[i].key = key THEN [key |-> key, cost |-> d[i].cost + cost] ELSE d[i]]
    ELSE Append(d, [key |-> key, cost |-> cost])

RECURSIVE ServiceCosts(_)
\* The service_costs dict after the loops over the groups.
ServiceCosts(groups) ==
    IF groups = <<>> THEN <<>>
    ELSE LET last == groups[Len(groups)] IN
         AddCost(ServiceCosts(SubSeq(groups, 1, Len(groups) - 1)),
                 last.Keys[1], ParseFloat(last.Metrics.UnblendedCost.Amount))

\* A stable sort in ascending order of cost.
RECURSIVE InsertByCost(_, _)
InsertByCost(sorted, x) ==
    IF sorted = <<>> THEN <<x>>
    ELSE IF sorted[Len(sorted)].cost <= x.cost THEN Append(sorted, x)
    ELSE Append(InsertByCost(SubSeq(sorted, 1, Len(sorted) - 1), x), sorted[Len(sorted)])

RECURSIVE SortByCost(_)
SortByCost(items) ==
    IF items = <<>> THEN <<>>
    ELSE InsertByCost(SortByCost(SubSeq(items, 1, Len(items) - 1)), items[Len(items)])

\* A descending sort that reverses an ascending one: equal costs come out in
\* reverse order.
SortedByCostReversed(items) == Reverse(SortByCost(items))

\* sorted(items, key=cost, reverse=True): the list is reversed, sorted stably
\* in ascending order and reversed again, so equal costs keep their order.
SortedByCostDescending(items) == Reverse(SortByCost(Reverse(items)))

\* _aggregate_service_costs: group['Keys'][0] of a group without keys raises.
AggregateServiceCosts(response) ==
    IF \E i \in 1..Len(AllGroups(response)) : AllGroups(response)[i].Keys = <<>>
    THEN Raised("IndexError")
    ELSE LET sorted_services == SortedByCostDescending(ServiceCosts(AllGroups(response)))
         IN  Returned("list",
                [i \in 1..Len(sorted_services) |->
                    [service |-> sorted_services[i].key, cost |-> sorted_services[i].cost]])

\* _parse_tagged_costs, the tag value of a group.
TagValue(group) == IF group.Keys # <<>> THEN group.Keys[1] ELSE "untagged"
IsUntagged(tag_value) == tag_value = "untagged" \/ tag_value = ""

RECURSIVE TaggedCosts(_, _)
\* The tagged_costs dict after the loops over the groups.
TaggedCosts(groups, tag_key) ==
    IF groups = <<>>
    THEN [tag_key |-> tag_key, by_tag_value |-> <<>>, untagged_cost |-> 0]
    ELSE LET last == groups[Len(groups)]
             cost == ParseFloat(last.Metrics.UnblendedCost.Amount)
             before == TaggedCosts(SubSeq(groups, 1, Len(groups) - 1), tag_key)
         IN  IF IsUntagged(TagValue(last))
             THEN [before EXCEPT !.untagged_cost = @ + cost]
             ELSE [before EXCEPT !.by_tag_value = AddCost(@, TagValue(last), cost)]

ParseTaggedCosts(response, tag_key) == TaggedCosts(AllGroups(response), tag_key)

\* ---- inputs of the response processing ----
MaxGroups == 2

Amount10 == <<"1", "0">>
Amount20 == <<"2", "0">>
Amount30 == <<"3", "0">>
Amount5 == <<"5">>
Amount3 == <<"3">>
Amount2_5 == <<"2", ".", "5">>
Amount2_75 == <<"2", ".", "7", "5">>
Amount0_25 == <<"0", ".", "2", "5">>

\* The start dates of the time periods of a response, in response order.
PeriodStarts == <<"2024-01-01", "2024-01-02">>

\* What a time period holds: no 'Groups' key, or at most MaxGroups groups
\* drawn from `groups`.
NoGroupsKey == [present |-> FALSE, groups |-> <<>>]
PeriodContents(groups) ==
    {NoGroupsKey} \cup {[present |-> TRUE, groups |-> gs] : gs \in SeqsUpTo(groups, MaxGroups)}

\* The time period starting at `start` with the given content.
Period(start, content) ==
    IF content.present
    THEN [TimePeriod |-> [Start |-> start], Groups |-> content.groups]
    ELSE [TimePeriod |-> [Start |-> start]]

\* The response whose k-th time period starts at PeriodStarts[k].
Response(contents) ==
    [ResultsByTime |-> [k \in 1..Len(contents) |-> Period(PeriodStarts[k], contents[k])]]

\* A response lacking 'ResultsByTime'.
ResponseWithoutResults == [ResponseMetadata |-> "ok"]

\* response is one of the responses of at most Len(PeriodStarts) time periods
\* over `groups`, or the response lacking 'ResultsByTime'.
IsResponse(response, groups) ==
    \/ response = ResponseWithoutResults
    \/ \E n \in 0..Len(PeriodStarts) :
          \E contents \in [1..n -> PeriodContents(groups)] : response = Response(contents)

\* Groups by SERVICE and RESOURCE_ID with none, one, two and three keys.
ProcessGroups ==
    { Group(<<>>, Amount10, Amount3, Amount10),
      Group(<<"Amazon EC2">>, Amount2_5, Amount5, Amount2_75),
      Group(<<"Amazon EC2", "i-1">>, Amount30, Amount20, Amount30),
      Group(<<"Amazon RDS", "db-1", "us-east-1">>, Amount0_25, Amount10, Amount0_25) }

\* Groups by SERVICE, and one group without keys.
ServiceGroups ==
    { Group(<<"A">>, Amount10, Amount10, Amount10),
      Group(<<"B">>, Amount10, Amount10, Amount10),
      Group(<<"B">>, Amount20, Amount20, Amount20),
      Group(<<"C">>, Amount20, Amount20, Amount20),
      Group(<<>>, Amount10, Amount10, Amount10) }

\* Groups by a tag key: no key, the empty value, and tag values.
TagGroups ==
    { Group(<<>>, Amount5, Amount5, Amount5),
      Group(<<"">>, Amount5, Amount5, Amount5),
      Group(<<"untagged">>, Amount5, Amount5, Amount5),
      Group(<<"prod">>, Amount5, Amount5, Amount5),
      Group(<<"dev">>, Amount2_5, Amount2_5, Amount2_5) }

\* What datetime.utcnow().isoformat() gives during a call.
Clock == {"2024-01-03T00:00:00", "2024-01-03T00:00:01"}

CostInit ==
    /\ c_op = "none"
    /\ raw_data = <<>>
    /\ c_result = NoResult

\* The caller invokes process_cost_data on a raw response.
CallProcessCostData ==
    /\ UNCHANGED <<metricsVars, invVars, statsVars, persistVars, estimateVars, rangeVars>>
    /\ c_op = "none"
    /\ c_op' = "process_cost_data"
    /\ IsResponse(raw_data', ProcessGroups)
    /\ \E now \in Clock : c_result' = Returned("list", ProcessCostData(raw_data', now))

\* get_service_costs hands the API's response to _aggregate_service_costs.
CallAggregateServiceCosts ==
    /\ UNCHANGED <<metricsVars, invVars, statsVars, persistVars, estimateVars, rangeVars>>
    /\ c_op = "none"
    /\ c_op' = "_aggregate_service_costs"
    /\ IsResponse(raw_data', ServiceGroups)
    /\ c_result' = AggregateServiceCosts(raw_data')

\* get_tagged_resources_cost hands the API's response to _parse_tagged_costs.
CallParseTaggedCosts ==
    /\ UNCHANGED <<metricsVars, invVars, statsVars, persistVars, estimateVars, rangeVars>>
    /\ c_op = "none"
    /\ c_op' = "_parse_tagged_costs"
    /\ IsResponse(raw_data', TagGroups)
    /\ c_result' = Returned("dict", ParseTaggedCosts(raw_data', "Environment"))

CostNext ==
    \/ CallProcessCostData
    \/ CallAggregateServiceCosts
    \/ CallParseTaggedCosts


(***************************************************************************)
(* Claims about the response processing (checked under SpecCost)           *)
(***************************************************************************)
RECURSIVE GroupsBefore(_, _)
\* The number of groups of the time periods before the p-th.
GroupsBefore(periods, p) ==
    IF p = 1 THEN 0
    ELSE GroupsBefore(periods, p - 1) + Len(PeriodGroups(periods[p - 1]))

RECURSIVE UnblendedTotal(_)
\* The sum of the unblended cost of the groups.
UnblendedTotal(groups) ==
    IF groups = <<>> THEN 0
    ELSE ParseFloat(Head(groups).Metrics.UnblendedCost.Amount) + UnblendedTotal(Tail(groups))

\* C6: process_cost_data returns one record per (time period, group) pair, in
\* response order; each record has the start date of its own period and the
\* cost and quantity of its own group.
C6_OneRecordPerPeriodGroup ==
    (c_op = "process_cost_data") =>
        LET periods == ResultsByTime(raw_data)
            rows == c_result.rows
        IN  /\ c_result.kind = "list"
            /\ Len(rows) = GroupsBefore(periods, Len(periods) + 1)
            /\ \A p \in 1..Len(periods) :
                 \A g \in 1..Len(PeriodGroups(periods[p])) :
                    LET row == rows[GroupsBefore(periods, p) + g]
                        group == PeriodGroups(periods[p])[g]
                    IN  /\ row.date = periods[p].TimePeriod.Start
                        /\ row.amortized_cost = ParseFloat(group.Metrics.AmortizedCost.Amount)
                        /\ row.usage_quantity = ParseFloat(group.Metrics.UsageQuantity.Amount)

\* C6 witness: two time periods of two groups each gave four records; the
\* second record is that of the group costing "2.5" with quantity "5".
C6_Witness ==
    /\ c_op = "process_cost_data"
    /\ Len(ResultsByTime(raw_data)) = 2
    /\ \A p \in 1..2 : Len(PeriodGroups(ResultsByTime(raw_data)[p])) = 2
    /\ Len(c_result.rows) = 4
    /\ ResultsByTime(raw_data)[1].Groups[2].Metrics.AmortizedCost.Amount = Amount2_5
    /\ ResultsByTime(raw_data)[1].Groups[1].Metrics.AmortizedCost.Amount = Amount30
    /\ c_result.rows[2].amortized_cost = 250
    /\ c_result.rows[2].usage_quantity = 500
    /\ c_result.rows[3].date = "2024-01-02"

\* C7: the keys of a group are taken by position: service is the first key
\* ('Unknown' without keys), resource_id the second ('N/A' without a second
\* key); further keys are ignored.
C7_KeysByPosition ==
    (c_op = "process_cost_data") =>
        \A k \in 1..Len(c_result.rows) :
            LET keys == AllGroups(raw_data)[k].Keys
                row == c_result.rows[k]
            IN  /\ Len(keys) = 0 => row.service = "Unknown" /\ row.resource_id = "N/A"
                /\ Len(keys) = 1 => row.service = keys[1] /\ row.resource_id = "N/A"
                /\ Len(keys) >= 2 => row.service = keys[1] /\ row.resource_id = keys[2]

\* C7 witness: records of groups with no key, one key, two keys and three keys.
C7_Witness ==
    /\ c_op = "process_cost_data"
    /\ Len(c_result.rows) = Len(AllGroups(raw_data))
    /\ {Len(AllGroups(raw_data)[k].Keys) : k \in 1..Len(AllGroups(raw_data))} = 0..3

\* The fields of a CostRecord.
CostRecordFields ==
    {"date", "service", "resource_id", "amortized_cost", "unblended_cost",
     "usage_quantity", "timestamp"}

\* C8: every record process_cost_data produces carries all the CostRecord
\* fields, unblended_cost included.
C8_RecordsCarryAllFields ==
    (c_op = "process_cost_data") =>
        \A k \in 1..Len(c_result.rows) : CostRecordFields \subseteq DOMAIN c_result.rows[k]

\* The first position of a group of the service in the response.
FirstOccurrence(groups, service) ==
    CHOOSE i \in 1..Len(groups) :
        /\ groups[i].Keys[1] = service
        /\ \A j \in 1..(i - 1) : groups[j].Keys[1] # service

GroupsOfKey(groups, key) ==
    SelectSeq(groups, LAMBDA group : group.Keys # <<>> /\ group.Keys[1] = key)

\* C9: _aggregate_service_costs returns one entry per distinct service with
\* its total cost, ordered by non-increasing cost, services of equal cost in
\* the order of their first occurrence in the response.
C9_DescendingStable ==
    (c_op = "_aggregate_service_costs") =>
        LET groups == AllGroups(raw_data)
            rows == c_result.rows
        IN  /\ c_result.kind = "raised" <=> \E i \in 1..Len(groups) : groups[i].Keys = <<>>
            /\ c_result.kind = "list" =>
                /\ {rows[i].service : i \in 1..Len(rows)}
                      = {groups[k].Keys[1] : k \in 1..Len(groups)}
                /\ \A i, j \in 1..Len(rows) :
                      i < j =>
                        /\ rows[i].service # rows[j].service
                        /\ rows[i].cost >= rows[j].cost
                        /\ rows[i].cost = rows[j].cost =>
                              FirstOccurrence(groups, rows[i].service)
                                < FirstOccurrence(groups, rows[j].service)
                /\ \A i \in 1..Len(rows) :
                      rows[i].cost = UnblendedTotal(GroupsOfKey(groups, rows[i].service))

\* C9 witness: three services; the one seen last costs most and comes first,
\* the other two cost the same and keep their order of first occurrence.
C9_Witness ==
    /\ c_op = "_aggregate_service_costs"
    /\ c_result.kind = "list"
    /\ Len(c_result.rows) = 3
    /\ c_result.rows[2].cost = c_result.rows[3].cost
    /\ c_result.rows[1].cost > c_result.rows[2].cost
    /\ AllGroups(raw_data)[Len(AllGroups(raw_data))].Keys[1] = c_result.rows[1].service

\* C10: _parse_tagged_costs adds the groups without a key or with the empty
\* tag value to untagged_cost and makes no entry for them; every other tag
\* value has a by_tag_value entry holding the sum of its groups' costs.
C10_OnlyMissingOrEmptyIsUntagged ==
    (c_op = "_parse_tagged_costs") =>
        LET groups == AllGroups(raw_data)
            by_tag_value == c_result.rows.by_tag_value
            Missing(group) == group.Keys = <<>> \/ group.Keys[1] = ""
        IN  /\ c_result.rows.untagged_cost = UnblendedTotal(SelectSeq(groups, Missing))
            /\ "" \notin DictKeys(by_tag_value)
            /\ \A k \in 1..Len(groups) :
                  ~Missing(groups[k]) =>
                     \E i \in 1..Len(by_tag_value) :
                        /\ by_tag_value[i].key = groups[k].Keys[1]
                        /\ by_tag_value[i].cost
                              = UnblendedTotal(GroupsOfKey(groups, groups[k].Keys[1]))

RECURSIVE SumOfCosts(_)
\* The sum of the values of a cost dict.
SumOfCosts(d) == IF d = <<>> THEN 0 ELSE Head(d).cost + SumOfCosts(Tail(d))

RECURSIVE CostOfPeriods(_)
\* The sum of the unblended cost of every group of every time period.
CostOfPeriods(periods) ==
    IF periods = <<>> THEN 0
    ELSE UnblendedTotal(PeriodGroups(Head(periods))) + CostOfPeriods(Tail(periods))

None == [none |-> TRUE]
Some(v) == [value |-> v]

\* Python containers that the model must tell apart when empty.
PyDict(items) == [py |-> "dict", items |-> items]
PyList(items) == [py |-> "list", items |-> items]

\* A lookup that answers 0 for a key the table lacks.
LookupOrZero(table, key) == IF key \in DOMAIN table THEN Some(table[key]) ELSE Some(0)

\* dict.get(key) on a lookup table
Lookup(table, key) == IF key \in DOMAIN table THEN Some(table[key]) ELSE None

Ec2VcpuMap ==
    ("t2.micro" :> 1) @@ ("t2.small" :> 1) @@ ("t2.medium" :> 2) @@ ("t2.large" :> 2) @@
    ("t3.micro" :> 2) @@ ("t3.small" :> 2) @@ ("t3.medium" :> 2) @@ ("t3.large" :> 2) @@
    ("m5.large" :> 2) @@ ("m5.xlarge" :> 4) @@ ("m5.2xlarge" :> 8) @@
    ("c5.large" :> 2) @@ ("c5.xlarge" :> 4) @@ ("c5.2xlarge" :> 8)

Ec2MemoryMap ==
    ("t2.micro" :> 1) @@ ("t2.small" :> 2) @@ ("t2.medium" :> 4) @@ ("t2.large" :> 8) @@
    ("t3.micro" :> 1) @@ ("t3.small" :> 2) @@ ("t3.medium" :> 4) @@ ("t3.large" :> 8) @@
    ("m5.large" :> 8) @@ ("m5.xlarge" :> 16) @@ ("m5.2xlarge" :> 32) @@
    ("c5.large" :> 4) @@ ("c5.xlarge" :> 8) @@ ("c5.2xlarge" :> 16)

RdsVcpuMap ==
    ("db.t3.micro" :> 2) @@ ("db.t3.small" :> 2) @@ ("db.t3.medium" :> 2) @@
    ("db.m5.large" :> 2) @@ ("db.m5.xlarge" :> 4) @@ ("db.m5.2xlarge" :> 8)

RdsMemoryMap ==
    ("db.t3.micro" :> 1) @@ ("db.t3.small" :> 2) @@ ("db.t3.medium" :> 4) @@
    ("db.m5.large" :> 8) @@ ("db.m5.xlarge" :> 16) @@ ("db.m5.2xlarge" :> 32)

\* _extract_tags: the tag list as a dict; a repeated key keeps its last value.
ExtractTags(tags_list) ==
    PyDict([k \in {tags_list[i].Key : i \in 1..Len(tags_list)} |->
              tags_list[CHOOSE i \in 1..Len(tags_list) :
                            /\ tags_list[i].Key = k
                            /\ \A j \in (i + 1)..Len(tags_list) : tags_list[j].Key # k].Value])

Ec2Record(instance) ==
    [resource_type |-> "EC2",
     resource_id |-> instance.InstanceId,
     instance_type |-> instance.InstanceType,
     vcpus |-> Lookup(Ec2VcpuMap, instance.InstanceType),
     memory_gb |-> Lookup(Ec2MemoryMap, instance.InstanceType),
     tags |-> ExtractTags(Get(instance, "Tags", <<>>))]

RdsRecord(db_instance) ==
    [resource_type |-> "RDS",
     resource_id |-> db_instance.DBInstanceIdentifier,
     instance_class |-> db_instance.DBInstanceClass,
     vcpus |-> Lookup(RdsVcpuMap, db_instance.DBInstanceClass),
     memory_gb |-> Lookup(RdsMemoryMap, db_instance.DBInstanceClass),
     tags |-> PyList(<<>>)]

LambdaRecord(function) ==
    [resource_type |-> "Lambda",
     resource_id |-> function.FunctionName,
     runtime |-> function.Runtime,
     memory_mb |-> function.MemorySize,
     tags |-> PyList(<<>>)]

\* Page records that take the instances of the first reservation only.
PageRecordsFirstReservation(service, page) ==
    IF service = "ec2"
    THEN IF page.Reservations = <<>> THEN <<>>
         ELSE [i \in 1..Len(page.Reservations[1].Instances) |->
                 Ec2Record(page.Reservations[1].Instances[i])]
    ELSE IF service = "rds"
    THEN [i \in 1..Len(page.DBInstances) |-> RdsRecord(page.DBInstances[i])]
    ELSE [i \in 1..Len(page.Functions) |-> LambdaRecord(page.Functions[i])]

\* The records one page of a listing adds to the scan's list.
PageRecords(service, page) ==
    IF service = "ec2"
    THEN Flatten([r \in 1..Len(page.Reservations) |->
            [i \in 1..Len(page.Reservations[r].Instances) |->
                Ec2Record(page.Reservations[r].Instances[i])]])
    ELSE IF service = "rds"
    THEN [i \in 1..Len(page.DBInstances) |-> RdsRecord(page.DBInstances[i])]
    ELSE [i \in 1..Len(page.Functions) |-> LambdaRecord(page.Functions[i])]

\* collect_full_inventory: its scans in the order of the dict literal, and
\* the key each one's list is stored under.
ScanOrder == <<"ec2", "rds", "lambda">>
InventoryKey == [ec2 |-> "ec2_instances", rds |-> "rds_instances",
                 lambda |-> "lambda_functions"]

\* The error a failing request of a listing raises.
ListingError(service) == [ec2 |-> "ec2:ClientError", rds |-> "rds:ClientError",
                          lambda |-> "lambda:ClientError"][service]

\* A page request of a listing, as logged.
PageRequest(service, ok) == [service |-> service, ok |-> ok]

\* ---- inputs of the inventory operations ----
MaxPages == 2

Instance(id, type) == [InstanceId |-> id, InstanceType |-> type]
Tag(key, value) == [Key |-> key, Value |-> value]

Ec2Pages ==
    { [Reservations |-> <<>>],
      [Reservations |->
         << [Instances |->
               << [InstanceId |-> "i-1", InstanceType |-> "t3.micro",
                   Tags |-> << Tag("env", "dev"), Tag("team", "ml"), Tag("env", "prod") >>],
                  Instance("i-2", "x2.mega") >>] >>],
      [Reservations |-> << [Instances |-> << Instance("i-3", "m5.xlarge") >>],
                           [Instances |-> << Instance("i-4", "t2.small") >>] >>] }

RdsPages ==
    { [DBInstances |-> << [DBInstanceIdentifier |-> "db-1", DBInstanceClass |-> "db.t3.micro"] >>],
      [DBInstances |-> << [DBInstanceIdentifier |-> "db-2", DBInstanceClass |-> "db.r5.large"],
                          [DBInstanceIdentifier |-> "db-3", DBInstanceClass |-> "db.m5.xlarge"] >>] }

LambdaPages ==
    { [Functions |-> <<>>],
      [Functions |-> << [FunctionName |-> "fn-1", Runtime |-> "python3.12", MemorySize |-> 128],
                        [FunctionName |-> "fn-2", Runtime |-> "nodejs20.x", MemorySize |-> 512] >>] }

\* A listing answers with at least one page.
PageLists(pages) == SeqsUpTo(pages, MaxPages) \ {<<>>}

Listings ==
    [ec2 : PageLists(Ec2Pages), rds : PageLists(RdsPages), lambda : PageLists(LambdaPages)]

InventoryInit ==
    /\ inv_pc = "idle"
    /\ listing = <<>>
    /\ page_no = 0
    /\ instances = <<>>
    /\ inventory = <<>>
    /\ scans_started = <<>>
    /\ page_log = <<>>
    /\ inv_result = NoResult

\* The caller invokes collect_full_inventory: the first scan starts.
CallCollectFullInventory ==
    /\ UNCHANGED <<metricsVars, costVars, statsVars, persistVars, estimateVars, rangeVars>>
    /\ inv_pc = "idle"
    /\ listing' \in Listings
    /\ inv_pc' = ScanOrder[1]
    /\ scans_started' = <<ScanOrder[1]>>
    /\ page_no' = 0
    /\ instances' = <<>>
    /\ UNCHANGED <<inventory, page_log, inv_result>>

Scanning == inv_pc \in Range(ScanOrder)

\* The running scan gets the next page of its listing and adds its records.
ScanPage ==
    /\ UNCHANGED <<metricsVars, costVars, statsVars, persistVars, estimateVars, rangeVars>>
    /\ Scanning
    /\ page_no < Len(listing[inv_pc])
    /\ page_no' = page_no + 1
    /\ instances' = instances \o PageRecords(inv_pc, listing[inv_pc][page_no + 1])
    /\ page_log' = Append(page_log, PageRequest(inv_pc, TRUE))
    /\ UNCHANGED <<inv_pc, listing, inventory, scans_started, inv_result>>

\* A failing page request whose error is caught: the scan's list so far is
\* stored and the next scan starts.
ScanPageFailsSwallowed ==
    /\ UNCHANGED <<metricsVars, costVars, statsVars, persistVars, estimateVars, rangeVars>>
    /\ Scanning
    /\ page_no < Len(listing[inv_pc])
    /\ inventory' = Append(inventory, [key |-> InventoryKey[inv_pc], records |-> instances])
    /\ IF Len(scans_started) < Len(ScanOrder)
       THEN /\ inv_pc' = ScanOrder[Len(scans_started) + 1]
            /\ scans_started' = Append(scans_started, ScanOrder[Len(scans_started) + 1])
            /\ UNCHANGED inv_result
       ELSE /\ inv_pc' = "done"
            /\ inv_result' = Returned("dict", inventory')
            /\ UNCHANGED scans_started
    /\ page_no' = 0
    /\ instances' = <<>>
    /\ page_log' = Append(page_log, PageRequest(inv_pc, FALSE))
    /\ UNCHANGED listing

\* The request of the next page fails: the scan logs the error and raises it
\* again, and collect_full_inventory lets it through to its caller.
ScanPageFails ==
    /\ UNCHANGED <<metricsVars, costVars, statsVars, persistVars, estimateVars, rangeVars>>
    /\ Scanning
    /\ page_no < Len(listing[inv_pc])
    /\ inv_result' = Raised(ListingError(inv_pc))
    /\ inv_pc' = "raised"
    /\ page_log' = Append(page_log, PageRequest(inv_pc, FALSE))
    /\ UNCHANGED <<listing, page_no, instances, inventory, scans_started>>

\* The running scan has consumed its listing and returns its list: the next
\* scan starts, or collect_full_inventory returns the inventory.
ScanReturns ==
    /\ UNCHANGED <<metricsVars, costVars, statsVars, persistVars, estimateVars, rangeVars>>
    /\ Scanning
    /\ page_no = Len(listing[inv_pc])
    /\ inventory' = Append(inventory, [key |-> InventoryKey[inv_pc], records |-> instances])
    /\ IF Len(scans_started) < Len(ScanOrder)
       THEN /\ inv_pc' = ScanOrder[Len(scans_started) + 1]
            /\ scans_started' = Append(scans_started, ScanOrder[Len(scans_started) + 1])
            /\ UNCHANGED inv_result
       ELSE /\ inv_pc' = "done"
            /\ inv_result' = Returned("dict", inventory')
            /\ UNCHANGED scans_started
    /\ page_no' = 0
    /\ instances' = <<>>
    /\ UNCHANGED <<listing, page_log>>

InventoryNext ==
    \/ CallCollectFullInventory
    \/ ScanPage
    \/ ScanPageFails
    \/ ScanReturns

(***************************************************************************)
(* Claims about the ResourceInventoryCollector (checked under SpecInventory)*)
(***************************************************************************)
IsPrefix(s, t) == Len(s) <= Len(t) /\ \A i \in 1..Len(s) : s[i] = t[i]

\* C3, in every state: the scans start in the order EC2, RDS, Lambda; an
\* inventory is returned only when no page request failed, and holds the
\* lists of all three scans; once a page request has failed it was the last
\* request made, the caller has the error of the scan that failed and no
\* inventory, and the scans after the failing one have not started.
C3_StateOfInventory ==
    /\ IsPrefix(scans_started, ScanOrder)
    /\ inv_result.kind = "dict" =>
          /\ inv_pc = "done"
          /\ \A k \in 1..Len(page_log) : page_log[k].ok
          /\ scans_started = ScanOrder
          /\ [i \in 1..Len(inv_result.rows) |-> inv_result.rows[i].key]
                = [i \in 1..Len(ScanOrder) |-> InventoryKey[ScanOrder[i]]]
    /\ \A k \in 1..Len(page_log) :
          ~page_log[k].ok =>
             /\ k = Len(page_log)
             /\ inv_pc = "raised"
             /\ inv_result = Raised(ListingError(page_log[k].service))
             /\ scans_started[Len(scans_started)] = page_log[k].service
    /\ inv_pc = "raised" => ~page_log[Len(page_log)].ok
    /\ inv_pc \notin {"done", "raised"} => inv_result = NoResult

\* C3: collect_full_inventory is fail-fast: the error of a failing scan goes
\* to the caller, no inventory is returned, and once it has been raised no
\* further scan starts and nothing changes any more.
C3_FailFast ==
    /\ []C3_StateOfInventory
    /\ [][inv_pc = "raised" => UNCHANGED invVars]_vars

\* C3 witness: the RDS scan failed after the EC2 scan had returned records;
\* the Lambda scan never started.
C3_Witness ==
    /\ inv_pc = "raised"
    /\ scans_started = <<"ec2", "rds">>
    /\ Len(inventory) = 1
    /\ inventory[1].records # <<>>
    /\ inv_result.error = "rds:ClientError"

\* The ids of the resources a page of a listing holds, in page order.
IdsOfPage(service, page) ==
    IF service = "ec2"
    THEN Flatten([r \in 1..Len(page.Reservations) |->
            [i \in 1..Len(page.Reservations[r].Instances) |->
                page.Reservations[r].Instances[i].InstanceId]])
    ELSE IF service = "rds"
    THEN [i \in 1..Len(page.DBInstances) |-> page.DBInstances[i].DBInstanceIdentifier]
    ELSE [i \in 1..Len(page.Functions) |-> page.Functions[i].FunctionName]

\* The ids of the resources of the first n pages of a listing.
IdsOfPages(service, pages, n) == Flatten([p \in 1..n |-> IdsOfPage(service, pages[p])])

RecordIds(records) == [i \in 1..Len(records) |-> records[i].resource_id]

\* The page requests of a service that succeeded.
PagesGot(service) ==
    Len(SelectSeq(page_log, LAMBDA request : request.service = service /\ request.ok))

\* The category a scan's records carry.
RecordType == [ec2 |-> "EC2", rds |-> "RDS", lambda |-> "Lambda"]

\* C18: a running scan holds one record per resource of the pages it has
\* consumed, in page order; a scan returns only after the last page of its
\* listing, and its list has one record per resource of all the pages (for
\* EC2 per instance of every reservation), none dropped or duplicated; a scan
\* whose page request fails returns no list.
C18_ScansDrainTheirListing ==
    /\ Scanning =>
          /\ RecordIds(instances) = IdsOfPages(inv_pc, listing[inv_pc], page_no)
          /\ PagesGot(inv_pc) = page_no
    /\ \A k \in 1..Len(inventory) :
          LET service == ScanOrder[k] IN
          /\ inventory[k].key = InventoryKey[service]
          /\ PagesGot(service) = Len(listing[service])
          /\ RecordIds(inventory[k].records)
                = IdsOfPages(service, listing[service], Len(listing[service]))
          /\ \A i \in 1..Len(inventory[k].records) :
                inventory[k].records[i].resource_type = RecordType[service]
    /\ inv_pc = "raised" =>
          /\ Len(inventory) = Len(scans_started) - 1
          /\ inv_result.rows = <<>>

\* C18 witness: the EC2 scan returned four records of a listing of two
\* pages, one of them with two reservations.
C18_Witness ==
    /\ Len(inventory) >= 1
    /\ Len(listing.ec2) = 2
    /\ \E p \in 1..2 : Len(listing.ec2[p].Reservations) = 2
    /\ RecordIds(inventory[1].records) = <<"i-1", "i-2", "i-3", "i-4">>

\* The records the scans have made so far.
AllRecords ==
    Range(instances) \cup UNION {Range(inventory[k].records) : k \in 1..Len(inventory)}

\* vcpus and memory_gb of the instance classes of the listings, as the
\* tables of the collector give them; the other classes are in no table.
TableOfClasses ==
    [c \in {"t3.micro", "m5.xlarge", "t2.small", "db.t3.micro", "db.m5.xlarge"} |->
        IF c = "t3.micro" THEN <<2, 1>>
        ELSE IF c = "m5.xlarge" THEN <<4, 16>>
        ELSE IF c = "t2.small" THEN <<1, 2>>
        ELSE IF c = "db.t3.micro" THEN <<2, 1>>
        ELSE <<4, 16>>]

\* The instance class of an EC2 or RDS record.
ClassOf(record) ==
    IF record.resource_type = "EC2" THEN record.instance_type ELSE record.instance_class

\* C19: every EC2 and RDS record of a class in the lookup tables has the
\* tables' vcpus and memory_gb, and one of a class in no table has None for
\* both; the scan goes on and returns such a record, and the only requests
\* made are the page requests of the listings.
C19_UnknownClassGivesNone ==
    /\ \A record \in AllRecords :
          record.resource_type \in {"EC2", "RDS"} =>
             IF ClassOf(record) \in DOMAIN TableOfClasses
             THEN /\ record.vcpus = Some(TableOfClasses[ClassOf(record)][1])
                  /\ record.memory_gb = Some(TableOfClasses[ClassOf(record)][2])
             ELSE /\ record.vcpus = None
                  /\ record.memory_gb = None
    /\ \A k \in 1..Len(page_log) : page_log[k].service \in Range(scans_started)
    /\ \A service \in Range(scans_started) :
          Len(SelectSeq(page_log, LAMBDA request : request.service = service))
             <= Len(listing[service])

\* C19 witness: the inventory returned holds the EC2 record of a class in no
\* table and the RDS record of a class in no table, next to records of
\* classes in the tables.
C19_Witness ==
    /\ inv_result.kind = "dict"
    /\ \E record \in Range(inv_result.rows[1].records) :
          record.instance_type = "x2.mega" /\ record.vcpus = None
    /\ \E record \in Range(inv_result.rows[1].records) :
          record.instance_type = "t3.micro" /\ record.memory_gb = Some(1)
    /\ \E record \in Range(inv_result.rows[2].records) :
          record.instance_class = "db.r5.large" /\ record.memory_gb = None

\* C20: the tags of every record of every scan are a key-to-value mapping,
\* and the tags of RDS and Lambda records are the empty mapping.
C20_TagsAreAMapping ==
    \A record \in AllRecords :
        /\ record.tags.py = "dict"
        /\ record.resource_type \in {"RDS", "Lambda"} => record.tags = PyDict(<<>>)

(***************************************************************************)
(* CloudWatchCollector.calculate_statistics                                *)
(* The 'value' column holds floats.  A float is modelled as a binary       *)
(* floating-point number m * 2^e with round-to-nearest, ties-to-even       *)
(* arithmetic as in IEEE 754; its significand has MantissaBits bits where  *)
(* a double has 53, so that the arithmetic stays within TLC's integers.    *)
(* Values are non-negative.  Of the seven statistics of an entry the model *)
(* keeps mean, max and min.                                                *)
(***************************************************************************)
MantissaBits == 7
MaxExponent == 12

RECURSIVE Pow2(_)
Pow2(k) == IF k = 0 THEN 1 ELSE 2 * Pow2(k - 1)

\* a / b rounded to the nearest integer, a tie going to the even one.
RoundHalfEven(a, b) ==
    LET q == a \div b
        r == a % b
    IN  IF 2 * r < b THEN q
        ELSE IF 2 * r > b THEN q + 1
        ELSE IF q % 2 = 0 THEN q ELSE q + 1

FloatZero == [m |-> 0, e |-> 0]

\* The float nearest to num / den: the significand m has MantissaBits bits.
RoundToFloat(num, den) ==
    IF num = 0 THEN FloatZero
    ELSE LET Scaled(x) == IF x < 0 THEN <<num * Pow2(-x), den>> ELSE <<num, den * Pow2(x)>>
             e == CHOOSE x \in (-MaxExponent)..MaxExponent :
                     /\ Pow2(MantissaBits - 1) * Scaled(x)[2] <= Scaled(x)[1]
                     /\ Scaled(x)[1] < Pow2(MantissaBits) * Scaled(x)[2]
             m == RoundHalfEven(Scaled(e)[1], Scaled(e)[2])
         IN  IF m = Pow2(MantissaBits)
             THEN [m |-> Pow2(MantissaBits - 1), e |-> e + 1]
             ELSE [m |-> m, e |-> e]

\* The float of a whole number.
Float(n) == RoundToFloat(n, 1)

\* The exact value of a float, as a fraction.
Numerator(x) == IF x.e >= 0 THEN x.m * Pow2(x.e) ELSE x.m
Denominator(x) == IF x.e >= 0 THEN 1 ELSE Pow2(-x.e)

FloatAdd(x, y) ==
    RoundToFloat(Numerator(x) * Denominator(y) + Numerator(y) * Denominator(x),
                 Denominator(x) * Denominator(y))
FloatDivide(x, n) == RoundToFloat(Numerator(x), Denominator(x) * n)
FloatLeq(x, y) == Numerator(x) * Denominator(y) <= Numerator(y) * Denominator(x)

RECURSIVE FloatSum(_)
\* The sum of the values, added from left to right.
FloatSum(values) ==
    IF values = <<>> THEN FloatZero
    ELSE FloatAdd(FloatSum(SubSeq(values, 1, Len(values) - 1)), values[Len(values)])

\* values.mean(): the sum divided by the count.
Mean(values) == FloatDivide(FloatSum(values), Len(values))
\* values.max(), values.min()
Max(values) == CHOOSE x \in Range(values) : \A y \in Range(values) : FloatLeq(y, x)
Min(values) == CHOOSE x \in Range(values) : \A y \in Range(values) : FloatLeq(x, y)

\* A row of the metrics table, with the columns calculate_statistics reads.
StatRow(rid, name, v) == [resource_id |-> rid, metric_name |-> name, value |-> Float(v)]

\* df[df['resource_id'] == resource_id]
RowsOfResource(table, rid) == SelectSeq(table, LAMBDA row : row.resource_id = rid)
\* resource_df[resource_df['metric_name'] == metric_name]['value'].values
ValuesOfMetric(resource_df, name) ==
    LET metric_df == SelectSeq(resource_df, LAMBDA row : row.metric_name = name)
    IN  [i \in 1..Len(metric_df) |-> metric_df[i].value]

\* df['resource_id'].unique()
ResourceIds(table) == {table[i].resource_id : i \in 1..Len(table)}

\* The metric names of every row of the table, whatever its resource.
MetricNamesOfTable(table, rid) == {table[i].metric_name : i \in 1..Len(table)}

\* resource_df['metric_name'].unique()
MetricNames(table, rid) ==
    {RowsOfResource(table, rid)[i].metric_name : i \in 1..Len(RowsOfResource(table, rid))}

\* The entry of one (resource_id, metric_name) pair.
MetricStatistics(values) ==
    IF values = <<>>
    THEN [mean |-> "nan", max |-> "nan", min |-> "nan"]
    ELSE [mean |-> Mean(values), max |-> Max(values), min |-> Min(values)]

\* calculate_statistics: {} for an empty table; otherwise a dict keyed by
\* resource_id of dicts keyed by metric_name.
CalculateStatistics(table) ==
    IF table = <<>> THEN Returned("dict", <<>>)
    ELSE Returned("dict",
            [rid \in ResourceIds(table) |->
                [name \in MetricNames(table, rid) |->
                    MetricStatistics(ValuesOfMetric(RowsOfResource(table, rid), name))]])

\* ---- inputs of calculate_statistics ----
MaxRows == 3

SampleRows ==
    { StatRow("i-1", "CPUUtilization", 90),
      StatRow("i-1", "CPUUtilization", 10),
      StatRow("i-1", "NetworkIn", 50),
      StatRow("i-2", "CPUUtilization", 10),
      StatRow("i-2", "NetworkIn", 30) }

\* The values 10, 20, 30, 40, 50 of one metric of one resource, alone and
\* between rows of another resource and of another metric.
ExampleTable ==
    [i \in 1..5 |-> StatRow("i-1", "CPUUtilization", 10 * i)]
ExampleTableInterleaved ==
    << StatRow("i-2", "CPUUtilization", 90) >> \o SubSeq(ExampleTable, 1, 2)
       \o << StatRow("i-1", "NetworkIn", 90) >> \o SubSeq(ExampleTable, 3, 5)

Tables == SeqsUpTo(SampleRows, MaxRows) \cup {ExampleTable, ExampleTableInterleaved}

StatisticsInit ==
    /\ df = <<>>
    /\ stats_result = NoResult

\* The caller invokes calculate_statistics on a metrics table.
CallCalculateStatistics ==
    /\ UNCHANGED <<metricsVars, costVars, invVars, persistVars, estimateVars, rangeVars>>
    /\ stats_result = NoResult
    /\ df' \in Tables
    /\ stats_result' = CalculateStatistics(df')

StatisticsNext ==
    \/ CallCalculateStatistics

(***************************************************************************)
(* Claims about calculate_statistics (checked under SpecStatistics)        *)
(***************************************************************************)
\* The (resource_id, metric_name) pairs of the rows of a table.
PairsOfTable(table) == {<<table[i].resource_id, table[i].metric_name>> : i \in 1..Len(table)}

\* The (resource_id, metric_name) pairs a result has an entry for.
PairsOfResult(stats) ==
    UNION {{<<rid, name>> : name \in DOMAIN stats[rid]} : rid \in DOMAIN stats}

\* C11: calculate_statistics never raises; for the empty table it returns
\* the empty mapping, and for any other table the result has an entry for
\* exactly the (resource_id, metric_name) pairs of the table's rows.
C11_EntriesAreThePairsOfTheRows ==
    (stats_result # NoResult) =>
        /\ stats_result.kind = "dict"
        /\ df = <<>> => stats_result.rows = <<>>
        /\ PairsOfResult(stats_result.rows) = PairsOfTable(df)
        /\ \A rid \in DOMAIN stats_result.rows : DOMAIN stats_result.rows[rid] # {}

\* C11 witness: a table of two resources, one of them with rows of one metric
\* only, gave entries for fewer pairs than resources times metrics.
C11_Witness ==
    /\ stats_result.kind = "dict"
    /\ Cardinality(ResourceIds(df)) = 2
    /\ Cardinality(PairsOfResult(stats_result.rows)) = 3

\* The values of the rows of the table that carry the pair, in row order.
ValuesOfPair(table, rid, name) ==
    LET rows == SelectSeq(table, LAMBDA row : row.resource_id = rid /\ row.metric_name = name)
    IN  [i \in 1..Len(rows) |-> rows[i].value]

\* C12: the mean, min and max of a (resource_id, metric_name) pair are those
\* of the values of the rows carrying the pair: min and max are the least and
\* the greatest of these values and min <= mean <= max; the values 10, 20,
\* 30, 40, 50 give mean 30, min 10, max 50.
C12_MeanBetweenMinAndMax ==
    (stats_result.kind = "dict") =>
        /\ \A pair \in PairsOfResult(stats_result.rows) :
              LET entry == stats_result.rows[pair[1]][pair[2]]
                  values == ValuesOfPair(df, pair[1], pair[2])
              IN  /\ entry.min \in Range(values)
                  /\ entry.max \in Range(values)
                  /\ \A v \in Range(values) : FloatLeq(entry.min, v) /\ FloatLeq(v, entry.max)
                  /\ FloatLeq(entry.min, entry.mean)
                  /\ FloatLeq(entry.mean, entry.max)
        /\ df \in {ExampleTable, ExampleTableInterleaved} =>
              stats_result.rows["i-1"]["CPUUtilization"]
                 = [mean |-> Float(30), max |-> Float(50), min |-> Float(10)]

(***************************************************************************)
(* Persistence: store_to_s3, store_to_dynamodb and collect_last_n_days of  *)
(* collectors/cost_explorer.py, store_metrics_to_s3 of                     *)
(* collectors/cloudwatch_metrics.py, store_inventory_to_s3 of              *)
(* collectors/resource_inventory.py.                                       *)
(* A behaviour constructs one collector and invokes one operation on it;   *)
(* the blob store and the keyed store are the environment: a put succeeds  *)
(* or fails.                                                               *)
(* A string is modelled as the sequence of its tokens: every character of  *)
(* a date or of a number is a token, and so are "/" and the words between  *)
(* slashes.                                                                *)
(***************************************************************************)
\* `not x` is False for a non-empty string only: None and "" are falsy.
Truthy(x) == x # None /\ x # Some("")

RECURSIVE DecimalDigits(_)
\* The decimal digits of a natural number.
DecimalDigits(n) ==
    IF n < 10 THEN <<Digits[n + 1]>>
    ELSE Append(DecimalDigits(n \div 10), Digits[(n % 10) + 1])

RECURSIVE ZeroPadded(_, _)
\* The digits of n, padded with zeros on the left to the width w.
ZeroPadded(n, w) ==
    IF Len(DecimalDigits(n)) >= w THEN DecimalDigits(n)
    ELSE <<"0">> \o ZeroPadded(n, w - 1)

\* date.isoformat(): YYYY-MM-DD
IsoFormat(date) ==
    ZeroPadded(date.year, 4) \o <<"-">> \o ZeroPadded(date.month, 2)
        \o <<"-">> \o ZeroPadded(date.day, 2)

\* s[a:b] of a string, with Python's clipping of the bounds.
Slice(str, a, b) ==
    SubSeq(str, a + 1, IF b < Len(str) THEN b ELSE Len(str))

\* A partition path whose month is cut one character early.
PartitionMonthCutEarly(str) ==
    <<"year=">> \o Slice(str, 0, 4) \o <<"/", "month=">> \o Slice(str, 4, 6)
        \o <<"/", "day=">> \o Slice(str, 8, 10)

\* year={date_str[:4]}/month={date_str[5:7]}/day={date_str[8:10]}
Partition(str) ==
    <<"year=">> \o Slice(str, 0, 4) \o <<"/", "month=">> \o Slice(str, 5, 7)
        \o <<"/", "day=">> \o Slice(str, 8, 10)

\* The object keys of the three store operations.
CostKey(str) ==
    <<"raw", "/", "cost-explorer", "/">> \o Partition(str) \o <<"/", "data.json">>
MetricsKey(str) ==
    <<"raw", "/", "cloudwatch-metrics", "/">> \o Partition(str) \o <<"/", "metrics.parquet">>
InventoryObjectKey(str) ==
    <<"raw", "/", "inventory", "/">> \o Partition(str) \o <<"/", "inventory.json">>

\* json.dumps(data): the serialised form of the data.
JsonDumps(data) == [json |-> data]
\* df.to_parquet(...): the serialised form of the table.
ToParquet(table) == [parquet |-> table]

\* ---- store_to_dynamodb: convert_floats ----
\* Python values of a summary, by type.
PyFloat(hundredths) == [py |-> "float", value |-> hundredths]
PyStr(str) == [py |-> "str", value |-> str]
PyInt(n) == [py |-> "int", value |-> n]
PyBool(b) == [py |-> "bool", value |-> b]
PyDecimal(text) == [py |-> "Decimal", value |-> text]

\* str(x) of a float of at most two fraction digits: "10.0", "2.5", "0.25".
FormatFloat(hundredths) ==
    DecimalDigits(hundredths \div 100) \o <<".">> \o
        (IF hundredths % 10 = 0
         THEN <<Digits[((hundredths % 100) \div 10) + 1]>>
         ELSE <<Digits[((hundredths % 100) \div 10) + 1], Digits[(hundredths % 10) + 1]>>)

RECURSIVE ConvertFloatsFlat(_)
\* A convert_floats that converts the floats of a dict's values and does not
\* go into lists.
ConvertFloatsFlat(obj) ==
    IF obj.py = "float" THEN PyDecimal(FormatFloat(obj.value))
    ELSE IF obj.py = "dict"
    THEN PyDict([k \in DOMAIN obj.items |-> ConvertFloatsFlat(obj.items[k])])
    ELSE obj

RECURSIVE ConvertFloats(_)
\* convert_floats: Decimal(str(obj)) for a float; a new dict or list of the
\* converted values for a dict or a list; anything else as it is.
ConvertFloats(obj) ==
    IF obj.py = "float" THEN PyDecimal(FormatFloat(obj.value))
    ELSE IF obj.py = "dict"
    THEN PyDict([k \in DOMAIN obj.items |-> ConvertFloats(obj.items[k])])
    ELSE IF obj.py = "list"
    THEN PyList([i \in 1..Len(obj.items) |-> ConvertFloats(obj.items[i])])
    ELSE obj

\* The dict a summary of process_cost_data is: its costs are floats, its
\* other values strings.
SummaryItem(summary) ==
    PyDict([k \in DOMAIN summary |->
              IF k \in {"amortized_cost", "usage_quantity"}
              THEN PyFloat(summary[k]) ELSE PyStr(summary[k])])

\* ---- what the store operations do before their put ----
\* A store_metrics_to_s3 that looks at the table before the bucket name.
StoreMetricsStepsEmptyFirst(bucket, table) ==
    IF table = <<>> THEN "skip"
    ELSE IF ~Truthy(bucket) THEN "ValueError"
    ELSE "put"

\* A store_metrics_to_s3 that uploads whatever table it is given.
StoreMetricsStepsNoSkip(bucket, table) ==
    IF ~Truthy(bucket) THEN "ValueError" ELSE "put"

\* store_to_s3, store_inventory_to_s3: the bucket name is checked first.
StoreSteps(bucket) == IF ~Truthy(bucket) THEN "ValueError" ELSE "put"

\* store_metrics_to_s3: the bucket name, then the empty table.
StoreMetricsSteps(bucket, table) ==
    IF ~Truthy(bucket) THEN "ValueError"
    ELSE IF table = <<>> THEN "skip"
    ELSE "put"

\* store_to_dynamodb: the table name is checked first.
StoreItemSteps(table_name) == IF ~Truthy(table_name) THEN "ValueError" ELSE "put"

\* A put_object request, as logged.
PutObject(bucket, key, body, ok) == [Bucket |-> bucket, Key |-> key, Body |-> body, ok |-> ok]
\* A put_item request, as logged.
PutItem(table_name, item, ok) == [Table |-> table_name, Item |-> item, ok |-> ok]

\* ---- inputs of the persistence operations ----
Date(y, m, d) == [year |-> y, month |-> m, day |-> d]
Dates == { Date(2024, 3, 7), Date(2024, 12, 31), Date(2025, 10, 9) }

\* The calls a caller makes on one collector after the first.
MaxCalls == 2

\* The regions a collector may be constructed for.
Regions == {"us-east-1", "eu-west-1"}

\* The client handles __init__ makes, each with the region it is bound to: the
\* Cost Explorer client is always in us-east-1, the blob store client takes
\* the session's default, the others take the region argument.
ClientHandles(region_name) ==
    [ce_client |-> "us-east-1", s3_client |-> "default", dynamodb |-> region_name,
     cw_client |-> region_name, ec2_client |-> region_name, rds_client |-> region_name,
     lambda_client |-> region_name]

BucketNames == {None, Some(""), Some("cost-data")}
TableNames == {None, Some(""), Some("cost-summaries")}

\* Raw responses handed to store_to_s3 and fetched by collect_last_n_days.
SampleResponses ==
    { ResponseWithoutResults,
      Response(<< [present |-> TRUE,
                   groups |-> << Group(<<"Amazon EC2", "i-1">>, Amount30, Amount20, Amount30),
                                 Group(<<"Amazon EC2">>, Amount2_5, Amount5, Amount2_75) >>],
                  [present |-> TRUE,
                   groups |-> << Group(<<>>, Amount0_25, Amount3, Amount0_25) >>] >>) }

\* Metrics tables handed to store_metrics_to_s3.
SampleTables == { <<>>, << StatRow("i-1", "CPUUtilization", 10) >> }

\* Inventories handed to store_inventory_to_s3.
SampleInventories ==
    { [ec2_instances |-> <<>>, rds_instances |-> <<>>, lambda_functions |-> <<>>],
      [ec2_instances |-> << Ec2Record(Instance("i-1", "t3.micro")) >>,
       rds_instances |-> <<>>, lambda_functions |-> <<>>] }

\* Summaries handed to store_to_dynamodb: a summary of process_cost_data, the
\* empty dict, and a dict with floats inside lists and dicts.
SampleSummaries ==
    { SummaryItem(CostSummary("2024-01-01",
                              Group(<<"Amazon EC2", "i-1">>, Amount2_75, Amount10, Amount2_75),
                              "2024-01-03T00:00:00")),
      PyDict(<<>>),
      PyDict([date |-> PyStr("2024-01-01"),
              count |-> PyInt(3),
              final |-> PyBool(FALSE),
              costs |-> PyList(<< PyFloat(250), PyStr("n/a"),
                                  PyDict([total |-> PyFloat(1000), parts |-> PyList(<<PyFloat(25)>>)]),
                                  PyList(<< PyFloat(5), PyInt(1) >>) >>),
              by_service |-> PyDict([ec2 |-> PyFloat(275), rds |-> PyDecimal(<<"1", ".", "5">>)])]) }

PersistInit ==
    /\ calls = 0
    /\ region = None
    /\ clients = None
    /\ s3_bucket = None
    /\ dynamodb_table = None
    /\ p_op = "none"
    /\ p_pc = "new"
    /\ date_str = <<>>
    /\ p_data = <<>>
    /\ summaries = <<>>
    /\ si = 0
    /\ s3_log = <<>>
    /\ ddb_log = <<>>
    /\ p_result = NoResult

\* __init__: the collector is given its bucket and table names, or none.
Construct ==
    /\ UNCHANGED <<metricsVars, costVars, invVars, statsVars, estimateVars, rangeVars>>
    /\ p_pc = "new"
    /\ \E region_name \in Regions :
          /\ region' = Some(region_name)
          /\ clients' = ClientHandles(region_name)
    /\ s3_bucket' \in BucketNames
    /\ dynamodb_table' \in TableNames
    /\ p_pc' = "ready"
    /\ UNCHANGED <<calls, p_op, date_str, p_data, summaries, si, s3_log, ddb_log, p_result>>

\* The put_object of a store operation and what the operation returns: the
\* key after a successful put, the store's error after a failed one.
PutAndReturn(key, body, ok) ==
    /\ s3_log' = Append(s3_log, PutObject(s3_bucket, key, body, ok))
    /\ p_result' = IF ok THEN Returned("key", key) ELSE Raised("ClientError")

\* The caller invokes store_to_s3.
CallStoreToS3 ==
    /\ UNCHANGED <<metricsVars, costVars, invVars, statsVars, estimateVars, rangeVars>>
    /\ p_pc = "ready"
    /\ p_op' = "store_to_s3"
    /\ p_pc' = "done"
    /\ \E date \in Dates, data \in SampleResponses, ok \in BOOLEAN :
        /\ date_str' = IsoFormat(date)
        /\ p_data' = data
        /\ IF StoreSteps(s3_bucket) = "ValueError"
           THEN /\ p_result' = Raised("ValueError")
                /\ UNCHANGED s3_log
           ELSE PutAndReturn(CostKey(date_str'), JsonDumps(data), ok)
    /\ UNCHANGED <<calls, region, clients, s3_bucket, dynamodb_table>>
    /\ UNCHANGED <<summaries, si, ddb_log>>

\* The caller invokes store_metrics_to_s3.
CallStoreMetricsToS3 ==
    /\ UNCHANGED <<metricsVars, costVars, invVars, statsVars, estimateVars, rangeVars>>
    /\ p_pc = "ready"
    /\ p_op' = "store_metrics_to_s3"
    /\ p_pc' = "done"
    /\ \E date \in Dates, table \in SampleTables, ok \in BOOLEAN :
        /\ date_str' = IsoFormat(date)
        /\ p_data' = table
        /\ IF StoreMetricsSteps(s3_bucket, table) = "ValueError"
           THEN /\ p_result' = Raised("ValueError")
                /\ UNCHANGED s3_log
           ELSE IF StoreMetricsSteps(s3_bucket, table) = "skip"
           THEN /\ p_result' = Returned("key", <<>>)
                /\ UNCHANGED s3_log
           ELSE PutAndReturn(MetricsKey(date_str'), ToParquet(table), ok)
    /\ UNCHANGED <<calls, region, clients, s3_bucket, dynamodb_table>>
    /\ UNCHANGED <<summaries, si, ddb_log>>

\* The caller invokes store_inventory_to_s3.
CallStoreInventoryToS3 ==
    /\ UNCHANGED <<metricsVars, costVars, invVars, statsVars, estimateVars, rangeVars>>
    /\ p_pc = "ready"
    /\ p_op' = "store_inventory_to_s3"
    /\ p_pc' = "done"
    /\ \E date \in Dates, inv \in SampleInventories, ok \in BOOLEAN :
        /\ date_str' = IsoFormat(date)
        /\ p_data' = inv
        /\ IF StoreSteps(s3_bucket) = "ValueError"
           THEN /\ p_result' = Raised("ValueError")
                /\ UNCHANGED s3_log
           ELSE PutAndReturn(InventoryObjectKey(date_str'), JsonDumps(inv), ok)
    /\ UNCHANGED <<calls, region, clients, s3_bucket, dynamodb_table>>
    /\ UNCHANGED <<summaries, si, ddb_log>>

\* A store_to_dynamodb that makes itself a new table handle before the put
\* and keeps it in self.dynamodb.
CallStoreToDynamodbNewHandle ==
    /\ UNCHANGED <<metricsVars, costVars, invVars, statsVars, estimateVars, rangeVars>>
    /\ p_pc = "ready"
    /\ p_op' = "store_to_dynamodb"
    /\ p_pc' = "done"
    /\ clients' = [clients EXCEPT !.dynamodb = "default"]
    /\ \E summary_data \in SampleSummaries, ok \in BOOLEAN :
        /\ p_data' = summary_data
        /\ IF StoreItemSteps(dynamodb_table) = "ValueError"
           THEN /\ p_result' = Raised("ValueError")
                /\ UNCHANGED ddb_log
           ELSE /\ ddb_log' = Append(ddb_log,
                                     PutItem(dynamodb_table, ConvertFloats(summary_data), ok))
                /\ p_result' = IF ok THEN Returned("None", <<>>) ELSE Raised("ClientError")
    /\ UNCHANGED <<calls, region, s3_bucket, dynamodb_table, date_str, summaries, si, s3_log>>

\* The caller invokes store_to_dynamodb: it returns None after a successful put.
CallStoreToDynamodb ==
    /\ UNCHANGED <<metricsVars, costVars, invVars, statsVars, estimateVars, rangeVars>>
    /\ p_pc = "ready"
    /\ p_op' = "store_to_dynamodb"
    /\ p_pc' = "done"
    /\ \E summary_data \in SampleSummaries, ok \in BOOLEAN :
        /\ p_data' = summary_data
        /\ IF StoreItemSteps(dynamodb_table) = "ValueError"
           THEN /\ p_result' = Raised("ValueError")
                /\ UNCHANGED ddb_log
           ELSE /\ ddb_log' = Append(ddb_log,
                                     PutItem(dynamodb_table, ConvertFloats(summary_data), ok))
                /\ p_result' = IF ok THEN Returned("None", <<>>) ELSE Raised("ClientError")
    /\ UNCHANGED <<calls, region, clients, s3_bucket, dynamodb_table>>
    /\ UNCHANGED <<date_str, summaries, si, s3_log>>

\* The caller invokes collect_last_n_days: the end date is today's, and
\* fetch_cost_data returns the raw response or raises the API's error.
CallCollectLastNDays ==
    /\ UNCHANGED <<metricsVars, costVars, invVars, statsVars, estimateVars, rangeVars>>
    /\ p_pc = "ready"
    /\ p_op' = "collect_last_n_days"
    /\ \E end_date \in Dates : date_str' = IsoFormat(end_date)
    /\ \/ \E response \in SampleResponses :
            /\ p_data' = response
            /\ p_pc' = "store_raw"
            /\ UNCHANGED p_result
       \/ /\ p_result' = Raised("ClientError")
          /\ p_pc' = "done"
          /\ UNCHANGED p_data
    /\ UNCHANGED <<calls, region, clients, s3_bucket, dynamodb_table>>
    /\ UNCHANGED <<summaries, si, s3_log, ddb_log>>

\* collect_last_n_days, "Store raw data" and process_cost_data: with a bucket
\* name store_to_s3 is called and its failure raised; without one the step is
\* passed over.  Then the summaries are made.
StoreRawData ==
    /\ UNCHANGED <<metricsVars, costVars, invVars, statsVars, estimateVars, rangeVars>>
    /\ p_pc = "store_raw"
    /\ \E ok \in BOOLEAN, now \in Clock :
        /\ s3_log' = IF Truthy(s3_bucket)
                     THEN Append(s3_log, PutObject(s3_bucket, CostKey(date_str),
                                                   JsonDumps(p_data), ok))
                     ELSE s3_log
        /\ IF Truthy(s3_bucket) /\ ~ok
           THEN /\ p_result' = Raised("ClientError")
                /\ p_pc' = "done"
                /\ UNCHANGED <<summaries, si>>
           ELSE /\ summaries' = ProcessCostData(p_data, now)
                /\ si' = 1
                /\ p_pc' = "summaries"
                /\ UNCHANGED p_result
    /\ UNCHANGED <<calls, region, clients, s3_bucket, dynamodb_table>>
    /\ UNCHANGED <<p_op, date_str, p_data, ddb_log>>

\* The summary loop has a summary left and a table name.
StoringSummaries ==
    p_pc = "summaries" /\ Truthy(dynamodb_table) /\ si <= Len(summaries)

\* collect_last_n_days, one iteration of the summary loop: store_to_dynamodb
\* puts the summary.
StoreSummary ==
    /\ UNCHANGED <<metricsVars, costVars, invVars, statsVars, estimateVars, rangeVars>>
    /\ StoringSummaries
    /\ ddb_log' = Append(ddb_log, PutItem(dynamodb_table,
                                          ConvertFloats(SummaryItem(summaries[si])), TRUE))
    /\ si' = si + 1
    /\ UNCHANGED <<calls, region, clients, s3_bucket, dynamodb_table>>
    /\ UNCHANGED <<p_op, p_pc, date_str, p_data, summaries,
                   s3_log, p_result>>

\* A summary loop that logs a failed put and goes on to the next summary.
StoreSummaryFailsSwallowed ==
    /\ UNCHANGED <<metricsVars, costVars, invVars, statsVars, estimateVars, rangeVars>>
    /\ StoringSummaries
    /\ ddb_log' = Append(ddb_log, PutItem(dynamodb_table,
                                          ConvertFloats(SummaryItem(summaries[si])), FALSE))
    /\ si' = si + 1
    /\ UNCHANGED <<calls, region, clients, s3_bucket, dynamodb_table>>
    /\ UNCHANGED <<p_op, p_pc, date_str, p_data, summaries,
                   s3_log, p_result>>

\* The put of a summary fails: store_to_dynamodb logs the error and raises it
\* again, and collect_last_n_days lets it through to its caller.
StoreSummaryFails ==
    /\ UNCHANGED <<metricsVars, costVars, invVars, statsVars, estimateVars, rangeVars>>
    /\ StoringSummaries
    /\ ddb_log' = Append(ddb_log, PutItem(dynamodb_table,
                                          ConvertFloats(SummaryItem(summaries[si])), FALSE))
    /\ p_result' = Raised("ClientError")
    /\ p_pc' = "done"
    /\ UNCHANGED <<calls, region, clients, s3_bucket, dynamodb_table>>
    /\ UNCHANGED <<p_op, date_str, p_data, summaries, si, s3_log>>

\* collect_last_n_days returns the summaries: after the loop, or at once when
\* there is no table name.
ReturnSummaries ==
    /\ UNCHANGED <<metricsVars, costVars, invVars, statsVars, estimateVars, rangeVars>>
    /\ p_pc = "summaries"
    /\ ~Truthy(dynamodb_table) \/ si > Len(summaries)
    /\ p_result' = Returned("list", summaries)
    /\ p_pc' = "done"
    /\ UNCHANGED <<calls, region, clients, s3_bucket, dynamodb_table>>
    /\ UNCHANGED <<p_op, date_str, p_data, summaries, si,
                   s3_log, ddb_log>>

\* The call is over and the caller makes another on the same collector: the
\* arguments, the locals and the record of the requests are those of the new
\* call; the collector's attributes are what the last call left.
NextCall ==
    /\ UNCHANGED <<metricsVars, costVars, invVars, statsVars, estimateVars, rangeVars>>
    /\ p_pc = "done"
    /\ calls < MaxCalls
    /\ calls' = calls + 1
    /\ p_pc' = "ready"
    /\ p_op' = "none"
    /\ date_str' = <<>>
    /\ p_data' = <<>>
    /\ summaries' = <<>>
    /\ si' = 0
    /\ s3_log' = <<>>
    /\ ddb_log' = <<>>
    /\ p_result' = NoResult
    /\ UNCHANGED <<region, clients, s3_bucket, dynamodb_table>>

PersistNext ==
    \/ Construct
    \/ CallStoreToS3
    \/ CallStoreMetricsToS3
    \/ CallStoreInventoryToS3
    \/ CallStoreToDynamodb
    \/ CallCollectLastNDays
    \/ StoreRawData
    \/ StoreSummary
    \/ StoreSummaryFails
    \/ ReturnSummaries

(***************************************************************************)
(* Claims about persistence (checked under SpecPersist)                    *)
(***************************************************************************)
\* The domain and the file name of the blobs an operation writes.
BlobDomain ==
    [store_to_s3 |-> "cost-explorer", collect_last_n_days |-> "cost-explorer",
     store_metrics_to_s3 |-> "cloudwatch-metrics", store_inventory_to_s3 |-> "inventory"]
BlobFile ==
    [store_to_s3 |-> "data.json", collect_last_n_days |-> "data.json",
     store_metrics_to_s3 |-> "metrics.parquet", store_inventory_to_s3 |-> "inventory.json"]

\* raw/<domain>/year=YYYY/month=MM/day=DD/<file> for the fields of a date.
PartitionedKey(domain, date, file) ==
    <<"raw", "/", domain, "/", "year=">> \o ZeroPadded(date.year, 4)
        \o <<"/", "month=">> \o ZeroPadded(date.month, 2)
        \o <<"/", "day=">> \o ZeroPadded(date.day, 2) \o <<"/", file>>

\* C13: the key of every object the store operations write is
\* raw/<domain>/year=YYYY/month=MM/day=DD/<file>, with the domain and file of
\* the operation and the zero-padded year, month and day of the date whose
\* string YYYY-MM-DD the operation was given; a key returned after a write is
\* the key written.
C13_KeyIsThePartitionOfTheDate ==
    \A k \in 1..Len(s3_log) :
        /\ p_op \in DOMAIN BlobDomain
        /\ \E date \in Dates :
              /\ date_str = IsoFormat(date)
              /\ s3_log[k].Key = PartitionedKey(BlobDomain[p_op], date, BlobFile[p_op])
        /\ p_result.kind = "key" => p_result.rows = s3_log[k].Key

\* C13 witness: store_inventory_to_s3 wrote the blob of 2024-03-07 and
\* returned its key, whose month is 03 and whose day is 07.
C13_Witness ==
    /\ p_op = "store_inventory_to_s3"
    /\ date_str = IsoFormat(Date(2024, 3, 7))
    /\ Len(s3_log) = 1
    /\ s3_log[1].ok
    /\ p_result.kind = "key"
    /\ p_result.rows =
          <<"raw", "/", "inventory", "/", "year=", "2", "0", "2", "4", "/", "month=", "0", "3",
            "/", "day=", "0", "7", "/", "inventory.json">>

\* C14: a store operation of a collector without a bucket name (without a
\* table name for store_to_dynamodb) raises the configuration error and puts
\* nothing into the blob store or the keyed store, whatever its data.
C14_MissingNameFailsFast ==
    /\ (p_op \in {"store_to_s3", "store_metrics_to_s3", "store_inventory_to_s3"}
          /\ ~Truthy(s3_bucket)) =>
          /\ p_result = Raised("ValueError")
          /\ s3_log = <<>>
          /\ ddb_log = <<>>
    /\ (p_op = "store_to_dynamodb" /\ ~Truthy(dynamodb_table)) =>
          /\ p_result = Raised("ValueError")
          /\ s3_log = <<>>
          /\ ddb_log = <<>>

\* C14 witness: store_metrics_to_s3 of a collector without a bucket name was
\* given the empty table and raised.
C14_Witness ==
    /\ p_op = "store_metrics_to_s3"
    /\ s3_bucket = None
    /\ p_data = <<>>
    /\ p_result.kind = "raised"

\* C15: whenever collect_last_n_days has returned its summaries, the raw
\* response is stored under the partition of the end date and every summary
\* returned has been written to the keyed store.
C15_ReturnImpliesPersisted ==
    (p_op = "collect_last_n_days" /\ p_result.kind = "list") =>
        /\ \E k \in 1..Len(s3_log) :
              /\ s3_log[k].ok
              /\ s3_log[k].Key = CostKey(date_str)
              /\ s3_log[k].Body = JsonDumps(p_data)
        /\ \A i \in 1..Len(p_result.rows) :
              \E k \in 1..Len(ddb_log) :
                 /\ ddb_log[k].ok
                 /\ ddb_log[k].Item = ConvertFloats(SummaryItem(p_result.rows[i]))

\* C16, in every state of collect_last_n_days: the k-th put is that of the
\* k-th summary; a failed put is the last one made and its error is what the
\* call raised; the summaries are returned only after one successful put each.
C16_StateOfSummaryWrites ==
    (p_op = "collect_last_n_days") =>
        /\ Len(ddb_log) <= Len(summaries)
        /\ \A k \in 1..Len(ddb_log) :
              /\ ddb_log[k].Item = ConvertFloats(SummaryItem(summaries[k]))
              /\ ~ddb_log[k].ok =>
                    /\ k = Len(ddb_log)
                    /\ p_pc = "done"
                    /\ p_result = Raised("ClientError")
        /\ (p_result.kind = "list" /\ Truthy(dynamodb_table)) =>
              Len(ddb_log) = Len(summaries)

\* C16: the summaries are written one put per summary, in the order of
\* process_cost_data; when the k-th put fails the call raises its error, the
\* k-1 puts before it stay as they are, and no put follows.
C16_OneWritePerSummaryNoRollback ==
    /\ []C16_StateOfSummaryWrites
    /\ [][IsPrefix(ddb_log, ddb_log') /\ Len(ddb_log') <= Len(ddb_log) + 1]_vars
    /\ [][p_pc = "done" => UNCHANGED persistVars]_vars

\* C16 witness: of three summaries the first was written and the put of the
\* second failed.
C16_Witness ==
    /\ p_op = "collect_last_n_days"
    /\ Len(summaries) = 3
    /\ Len(ddb_log) = 2
    /\ ddb_log[1].ok
    /\ ~ddb_log[2].ok
    /\ p_result.kind = "raised"

RECURSIVE NoFloat(_)
\* No float in the value, at any depth of its dicts and lists.
NoFloat(obj) ==
    /\ obj.py # "float"
    /\ obj.py = "dict" => \A k \in DOMAIN obj.items : NoFloat(obj.items[k])
    /\ obj.py = "list" => \A i \in 1..Len(obj.items) : NoFloat(obj.items[i])

RECURSIVE ConvertedFrom(_, _)
\* item is obj with every float replaced by the Decimal of the same value:
\* same keys, same list lengths and order, same non-float values.
ConvertedFrom(item, obj) ==
    IF obj.py = "float"
    THEN item.py = "Decimal" /\ ParseFloat(item.value) = obj.value
    ELSE /\ item.py = obj.py
         /\ IF obj.py = "dict"
            THEN /\ DOMAIN item.items = DOMAIN obj.items
                 /\ \A k \in DOMAIN obj.items : ConvertedFrom(item.items[k], obj.items[k])
            ELSE IF obj.py = "list"
            THEN /\ Len(item.items) = Len(obj.items)
                 /\ \A i \in 1..Len(obj.items) : ConvertedFrom(item.items[i], obj.items[i])
            ELSE item = obj

\* The summary a put of the keyed store was made for.
SummaryOfPut(k) ==
    IF p_op = "collect_last_n_days" THEN SummaryItem(summaries[k]) ELSE p_data

\* C17: the item of every put of the keyed store holds no float at any depth
\* of its dicts and lists; it is the summary with each float replaced by the
\* decimal of the same value, all else as in the summary, and the summary
\* handed in is as the caller gave it.
C17_ItemsHoldNoFloat ==
    /\ \A k \in 1..Len(ddb_log) :
          /\ NoFloat(ddb_log[k].Item)
          /\ ConvertedFrom(ddb_log[k].Item, SummaryOfPut(k))
    /\ p_op = "store_to_dynamodb" => p_data \in SampleSummaries

\* C17 witness: a put whose summary has floats in a list, in a dict inside
\* the list and in a list inside that dict.
C17_Witness ==
    /\ p_op = "store_to_dynamodb"
    /\ Len(ddb_log) = 1
    /\ ddb_log[1].ok
    /\ "costs" \in DOMAIN p_data.items
    /\ p_data.items.costs.items[3].items.parts.items[1] = PyFloat(25)
    /\ ddb_log[1].Item.items.costs.items[3].items.parts.items[1]
          = PyDecimal(<<"0", ".", "2", "5">>)
    /\ ddb_log[1].Item.items.costs.items[1] = PyDecimal(<<"2", ".", "5">>)

\* C26: in collect_last_n_days the steps come in the order fetch, raw blob
\* store, process, summary writes: a summary is written to the keyed store
\* only after the raw response was stored in the blob store; when the fetch
\* or the raw blob store fails the call raises and no summary is written.
C26_RawStoreBeforeSummaries ==
    (p_op = "collect_last_n_days") =>
        /\ ddb_log # <<>> =>
              /\ Len(s3_log) = 1
              /\ s3_log[1].ok
              /\ s3_log[1].Key = CostKey(date_str)
              /\ s3_log[1].Body = JsonDumps(p_data)
        /\ (\E k \in 1..Len(s3_log) : ~s3_log[k].ok) =>
              /\ p_result = Raised("ClientError")
              /\ summaries = <<>>
              /\ ddb_log = <<>>
        /\ (p_pc = "done" /\ DOMAIN p_data = {}) =>
              /\ p_result = Raised("ClientError")
              /\ s3_log = <<>>
              /\ ddb_log = <<>>

\* C27: store_metrics_to_s3 of a collector with a bucket name, given the
\* empty table, uploads nothing and returns the empty string; given a table
\* with rows it makes exactly one upload, of that table, and returns the
\* object's key (the store's error is raised when the upload fails).
C27_EmptyTableIsNotUploaded ==
    (p_op = "store_metrics_to_s3" /\ Truthy(s3_bucket)) =>
        /\ ddb_log = <<>>
        /\ IF p_data = <<>>
           THEN /\ s3_log = <<>>
                /\ p_result = Returned("key", <<>>)
           ELSE /\ Len(s3_log) = 1
                /\ s3_log[1].Bucket = s3_bucket
                /\ s3_log[1].Key = MetricsKey(date_str)
                /\ s3_log[1].Body = ToParquet(p_data)
                /\ s3_log[1].ok => p_result = Returned("key", s3_log[1].Key)
                /\ ~s3_log[1].ok => p_result = Raised("ClientError")

\* C27 witness: the collector has a bucket name and was given the empty
\* table; the call returned the empty string.
C27_Witness ==
    /\ p_op = "store_metrics_to_s3"
    /\ s3_bucket = Some("cost-data")
    /\ p_data = <<>>
    /\ p_result.kind = "key"
    /\ p_result.rows = <<>>

\* What __init__ sets on the collector.
Attributes == <<region, clients, s3_bucket, dynamodb_table>>

\* C23: no operation keeps state on the collector: whatever the sequence of
\* store and collect calls, successful or failed, the bucket name, the table
\* name, the region and the client handles are as __init__ set them (only
\* __init__ assigns them), and the client handles are those of the region.
C23_AttributesAsConstructed ==
    /\ [](p_pc # "new" =>
            /\ region \in {Some(r) : r \in Regions}
            /\ clients = ClientHandles(region.value))
    /\ [][p_pc # "new" => UNCHANGED Attributes]_vars

\* C23 witness: a second call on the collector has ended, a collect whose
\* summary write failed.
C23_Witness ==
    /\ calls = 1
    /\ p_op = "collect_last_n_days"
    /\ p_pc = "done"
    /\ p_result.kind = "raised"
    /\ ddb_log # <<>>
    /\ region = Some("eu-west-1")
    /\ clients.dynamodb = "eu-west-1"
    /\ clients.ce_client = "us-east-1"

(***************************************************************************)
(* The custom-metric cost estimate of the analysis scripts                 *)
(* Dollar amounts are integers in hundredths: 0.30 is 30, 0.10 is 10.      *)
(***************************************************************************)
FirstTier == 10000
FirstTierRate == 30
NextTierRate == 10

\* An estimate that charges every metric at the rate of the first tier.
CustomMetricCostFlat(n) == n * FirstTierRate

\* total_custom * 0.30 up to 10000 metrics, and beyond them
\* (10000 * 0.30) + ((total_custom - 10000) * 0.10).
CustomMetricCost(n) ==
    IF n <= FirstTier THEN n * FirstTierRate
    ELSE (FirstTier * FirstTierRate) + ((n - FirstTier) * NextTierRate)

\* f"{x:.2f}" of an amount that is a whole number of hundredths.
TwoDecimals(hundredths) ==
    DecimalDigits(hundredths \div 100) \o <<".">> \o ZeroPadded(hundredths % 100, 2)

\* ---- inputs of the estimate ----
NearTier == 40

\* The totals the account may have: few metrics, totals around the end of
\* the first tier, and 12000.
CustomMetricCounts ==
    (0..NearTier) \cup ((FirstTier - NearTier)..(FirstTier + NearTier)) \cup {12000}

EstimateInit ==
    /\ total_custom = 0
    /\ estimated_cost = None
    /\ cost_text = <<>>

\* The script is run on an account with n custom metrics.
EstimateCustomMetricCost ==
    /\ UNCHANGED <<metricsVars, costVars, invVars, statsVars, persistVars, rangeVars>>
    /\ \E n \in CustomMetricCounts :
        /\ total_custom' = n
        /\ estimated_cost' = Some(CustomMetricCost(n))
        /\ cost_text' = TwoDecimals(CustomMetricCost(n))

EstimateNext == EstimateCustomMetricCost

\* C24, in every state: the estimate is n x $0.30 up to 10,000 metrics and
\* $3,000 + (n - 10,000) x $0.10 beyond; 10,000 metrics give $3000.00 and
\* 12,000 give $3200.00.
C24_StateOfEstimate ==
    (estimated_cost # None) =>
        /\ total_custom <= 10000 => estimated_cost.value = total_custom * 30
        /\ total_custom > 10000 =>
              estimated_cost.value = 300000 + (total_custom - 10000) * 10
        /\ total_custom = 10000 =>
              cost_text = <<"3", "0", "0", "0", ".", "0", "0">>
        /\ total_custom = 12000 =>
              cost_text = <<"3", "2", "0", "0", ".", "0", "0">>
        /\ ParseFloat(cost_text) = estimated_cost.value

\* C24: the custom-metric estimate is tiered as C24_StateOfEstimate says; it
\* is non-decreasing in the number of metrics, and continuous at 10,000: one
\* metric more costs $0.30 more up to 10,000 and $0.10 more from there on.
C24_TieredEstimate ==
    /\ []C24_StateOfEstimate
    /\ [][(estimated_cost # None /\ total_custom' >= total_custom) =>
             estimated_cost'.value >= estimated_cost.value]_vars
    /\ [][(estimated_cost # None /\ total_custom' = total_custom + 1) =>
             estimated_cost'.value - estimated_cost.value
                = IF total_custom < 10000 THEN 30 ELSE 10]_vars

\* C24 witness: the estimate of 12,000 metrics, printed as 3200.00.
C24_Witness ==
    /\ total_custom = 12000
    /\ estimated_cost = Some(320000)
    /\ cost_text = <<"3", "2", "0", "0", ".", "0", "0">>

(***************************************************************************)
(* utils.get_date_ranges                                                   *)
(***************************************************************************)
IsLeapYear(y) == (y % 4 = 0 /\ y % 100 # 0) \/ y % 400 = 0

DaysInMonth(y, m) ==
    IF m = 2 THEN (IF IsLeapYear(y) THEN 29 ELSE 28)
    ELSE IF m \in {4, 6, 9, 11} THEN 30 ELSE 31

\* date - timedelta(days=1)
PrevDay(date) ==
    IF date.day > 1 THEN Date(date.year, date.month, date.day - 1)
    ELSE IF date.month > 1
    THEN Date(date.year, date.month - 1, DaysInMonth(date.year, date.month - 1))
    ELSE Date(date.year - 1, 12, 31)

\* date - timedelta(days=-1)
NextDay(date) ==
    IF date.day < DaysInMonth(date.year, date.month)
    THEN Date(date.year, date.month, date.day + 1)
    ELSE IF date.month < 12 THEN Date(date.year, date.month + 1, 1)
    ELSE Date(date.year + 1, 1, 1)

RECURSIVE MinusDays(_, _)
\* date - timedelta(days=k), k of either sign.
MinusDays(date, k) ==
    IF k = 0 THEN date
    ELSE IF k > 0 THEN MinusDays(PrevDay(date), k - 1)
    ELSE MinusDays(NextDay(date), k + 1)

\* A chunk that always has chunk_days days.
ChunkSizeUnclamped(chunk, remaining) == chunk

\* min(chunk_days, days_remaining)
ChunkSize(chunk, remaining) == IF chunk <= remaining THEN chunk ELSE remaining

\* ---- inputs of get_date_ranges ----
MaxDaysBack == 5
MaxChunkDays == 3
DefaultChunkDays == 30

\* The ranges the model lets the loop append.
MaxRanges == MaxDaysBack + 2

\* Today's date: after a leap day, on a new year's day, after the end of a
\* February of 28 days.
Todays == { Date(2024, 3, 2), Date(2024, 1, 1), Date(2023, 3, 1) }

DaysBackChoices == (0 - 1)..MaxDaysBack
ChunkDaysChoices == ((0 - 1)..MaxChunkDays) \cup {DefaultChunkDays}

DateRangesInit ==
    /\ days_back = 0
    /\ chunk_days = DefaultChunkDays
    /\ utc_today = None
    /\ current_end = None
    /\ days_remaining = 0
    /\ ranges = <<>>
    /\ d_pc = "idle"
    /\ d_result = NoResult

\* The caller invokes get_date_ranges; the statements before the loop.
CallGetDateRanges ==
    /\ UNCHANGED <<metricsVars, costVars, invVars, statsVars, persistVars, estimateVars>>
    /\ d_pc = "idle"
    /\ days_back' \in DaysBackChoices
    /\ chunk_days' \in ChunkDaysChoices
    /\ utc_today' \in Todays
    /\ current_end' = utc_today'
    /\ days_remaining' = days_back'
    /\ ranges' = <<>>
    /\ d_pc' = "loop"
    /\ UNCHANGED d_result

\* One iteration of the while loop.
AppendChunk ==
    /\ UNCHANGED <<metricsVars, costVars, invVars, statsVars, persistVars, estimateVars>>
    /\ d_pc = "loop"
    /\ days_remaining > 0
    /\ Len(ranges) < MaxRanges
    /\ LET chunk_size == ChunkSize(chunk_days, days_remaining)
           current_start == MinusDays(current_end, chunk_size)
       IN  /\ ranges' = Append(ranges, <<IsoFormat(current_start), IsoFormat(current_end)>>)
           /\ current_end' = current_start
           /\ days_remaining' = days_remaining - chunk_size
    /\ UNCHANGED <<days_back, chunk_days, utc_today, d_pc, d_result>>

\* The loop is over: list(reversed(ranges)) is returned.
ReturnDateRanges ==
    /\ UNCHANGED <<metricsVars, costVars, invVars, statsVars, persistVars, estimateVars>>
    /\ d_pc = "loop"
    /\ ~(days_remaining > 0)
    /\ d_result' = Returned("list", Reverse(ranges))
    /\ d_pc' = "done"
    /\ UNCHANGED <<days_back, chunk_days, utc_today, current_end, days_remaining, ranges>>

DateRangesNext ==
    \/ CallGetDateRanges
    \/ AppendChunk
    \/ ReturnDateRanges

\* The date a string YYYY-MM-DD stands for.
ParseIso(str) ==
    Date(DigitsValue(SubSeq(str, 1, 4)), DigitsValue(SubSeq(str, 6, 7)),
         DigitsValue(SubSeq(str, 9, 10)))

\* The days of the months of year y before month m.
RECURSIVE DaysBeforeMonth(_, _)
DaysBeforeMonth(y, m) ==
    IF m = 1 THEN 0 ELSE DaysBeforeMonth(y, m - 1) + DaysInMonth(y, m - 1)

\* The number of the day in the proleptic Gregorian calendar (0001-01-01 is 1).
Ordinal(date) ==
    LET y == date.year - 1 IN
    (365 * y) + (y \div 4) - (y \div 100) + (y \div 400)
        + DaysBeforeMonth(date.year, date.month) + date.day

\* The least number of chunks of a given size that cover the days.
CeilDiv(a, b) == (a + b - 1) \div b

\* C28: for days_back >= 1 and chunk_days >= 1 get_date_ranges returns
\* ceil(days_back / chunk_days) ranges of ISO dates in ascending order that
\* partition the window: the first starts at today - days_back, the last
\* ends today, each ends where the next starts and spans between 1 and
\* chunk_days days; for days_back <= 0 it returns the empty list.
C28_RangesPartitionTheWindow ==
    (d_pc = "done") =>
        LET got == d_result.rows
            Start(i) == Ordinal(ParseIso(got[i][1]))
            End(i) == Ordinal(ParseIso(got[i][2]))
        IN  /\ d_result.kind = "list"
            /\ days_back <= 0 => got = <<>>
            /\ (days_back >= 1 /\ chunk_days >= 1) =>
                  /\ Len(got) = CeilDiv(days_back, chunk_days)
                  /\ Start(1) = Ordinal(utc_today) - days_back
                  /\ End(Len(got)) = Ordinal(utc_today)
                  /\ \A i \in 1..Len(got) :
                        /\ got[i][1] = IsoFormat(ParseIso(got[i][1]))
                        /\ got[i][2] = IsoFormat(ParseIso(got[i][2]))
                        /\ End(i) - Start(i) \in 1..chunk_days
                  /\ \A i \in 1..(Len(got) - 1) : got[i][2] = got[i + 1][1]

\* C28 witness: five days back from 2024-03-02 in chunks of two days: three
\* ranges, the first of one day, the second over the leap day.
C28_Witness ==
    /\ d_pc = "done"
    /\ days_back = 5
    /\ chunk_days = 2
    /\ d_result.rows =
          << << <<"2", "0", "2", "4", "-", "0", "2", "-", "2", "6">>,
                <<"2", "0", "2", "4", "-", "0", "2", "-", "2", "7">> >>,
             << <<"2", "0", "2", "4", "-", "0", "2", "-", "2", "7">>,
                <<"2", "0", "2", "4", "-", "0", "2", "-", "2", "9">> >>,
             << <<"2", "0", "2", "4", "-", "0", "2", "-", "2", "9">>,
                <<"2", "0", "2", "4", "-", "0", "3", "-", "0", "2">> >> >>

\* C29: get_date_ranges terminates for every integer days_back and every
\* integer chunk_days: each iteration of its loop strictly decreases
\* days_remaining, until it reaches zero and the call returns.
C29_Terminates ==
    /\ (d_pc = "loop") ~> (d_pc = "done")
    /\ [][Len(ranges') > Len(ranges) => days_remaining' < days_remaining]_vars

Init ==
    /\ MetricsInit /\ CostInit /\ InventoryInit /\ StatisticsInit /\ PersistInit
    /\ EstimateInit /\ DateRangesInit

SpecMetrics == Init /\ [][MetricsNext]_vars

SpecCost == Init /\ [][CostNext]_vars

SpecInventory == Init /\ [][InventoryNext]_vars

SpecStatistics == Init /\ [][StatisticsNext]_vars

SpecPersist == Init /\ [][PersistNext]_vars

\* A collector over its life: constructed, then called again and again.
LifecycleNext == PersistNext \/ NextCall
SpecLifecycle == Init /\ [][LifecycleNext]_vars

SpecEstimate == Init /\ [][EstimateNext]_vars

SpecDateRanges == Init /\ [][DateRangesNext]_vars

\* A call of get_date_ranges, once made, runs: its loop takes its next
\* iteration and its return statement is executed.
SpecDateRangesRun ==
    Init /\ [][DateRangesNext]_vars /\ WF_vars(AppendChunk) /\ WF_vars(ReturnDateRanges)

====
